---- MODULE Spec2Model ----
(***************************************************************************)
(* Model of kodegen-native-permissions: the PermissionManager (status      *)
(* cache, check / request / batch / refresh / clear, Arc-shared clones),   *)
(* the tokio oneshot channel that bridges native callbacks to the awaiting *)
(* request, and the request adapters of the three platforms for a          *)
(* representative permission kind of every dispatch path.                  *)
(***************************************************************************)
EXTENDS Integers, Sequences, FiniteSets, TLC

\* ---------------------------------------------------------------- bounds
MaxInFlight == 2    \* calls (and spawned batch tasks) in flight at one time
MaxHandles == 2     \* PermissionManager handles (the original and its clones)
MaxBatch == 2       \* length of the slice given to request_permissions

\* ---------------------------------------------------------------- values
\* target_os of the build: the three supported ones and any other, for which
\* the manager compiles its fallback arms (manager.rs, lines 89-90, 167-171)
Platforms == {"macos", "linux", "windows", "other"}

\* PermissionType variants, one per dispatch path of the three platforms
Kinds == {"Camera", "Location", "WiFi"}

\* PermissionStatus variants the adapters of the modelled kinds produce
PermissionStatus == {"NotDetermined", "Authorized", "Denied"}

None == "None"

Ok(s) == [ok |-> TRUE, val |-> s]

Err(e) == [ok |-> FALSE, val |-> e]

\* PermissionError values (variant and detail)
ChannelClosed == "SystemError(Permission channel closed)"

NotOnMainThread == "SystemError(Not on main thread)"

AdapterFailure == "SystemError(System operation failed)"

UnknownError == "Unknown"

NoRes == [ok |-> FALSE, val |-> None]

\* the call did not return: a panic unwound out of it
Panicked == [ok |-> FALSE, val |-> "panic"]

\* the async context a synchronous call is made from
Contexts == {"no_runtime", "current_thread", "multi_thread"}

Calls == 1..MaxInFlight

Handles == 1..MaxHandles

\* HashMap::new()
EmptyCache == [k \in Kinds |-> None]

CacheInsertAll(c, k, s) == [x \in Kinds |-> s]

CacheInsertIfAbsent(c, k, s) == IF c[k] = None THEN [c EXCEPT ![k] = s] ELSE c

\* HashMap::insert
CacheInsert(c, k, s) == [c EXCEPT ![k] = s]

CacheClearOne(c) == [c EXCEPT !["Camera"] = None]

\* HashMap::clear
CacheClear(c) == [k \in Kinds |-> None]

CloneCacheCopy(src, fresh) == fresh

\* Arc::clone(&self.cache): the clone refers to the same cache object
CloneCache(src, fresh) == src

\* the result map of request_permissions before any insert
EmptyMap == [k \in Kinds |-> NoRes]

\* the record of a returned call: operation, kind, handle, the value returned
\* (res), where it came from (via: "cache", "adapter", "channel", "closed",
\* "sync"), the value the platform delivered (got), whether the returning
\* step changed a cache (changed) and, for a batch, the map returned, the
\* kinds asked for, the number of tasks spawned (n) and joined, and what
\* each task.await yielded, in join order (log); for a request, the number
\* of values sent into its channel (sent).  A step in which a call (by)
\* makes a native call records the class of the API called (api).  newer is
\* the status a platform call of the same kind delivered after the platform
\* call of the returning call had finished (None when there was no such call).
NoHist == [op |-> "none", kind |-> None, res |-> NoRes, via |-> "none", h |-> 0,
           got |-> NoRes, changed |-> FALSE, map |-> EmptyMap, types |-> {},
           n |-> 0, joined |-> 0, log |-> <<>>, sent |-> 0, api |-> "none",
           by |-> "none", newer |-> None]

\* log: for every task awaited so far, its kind, whether the join was Ok
\* and the result the task's request_permission returned
NoBatch == [st |-> "idle", h |-> 0, types |-> <<>>, tasks |-> <<>>, next |-> 1,
            map |-> EmptyMap, joined |-> 0, log |-> <<>>]

VARIABLES
    platform,   \* target_os of the build
    caches,     \* cache objects (the HashMap behind each Arc<RwLock<..>>)
    cacheOf,    \* handle -> cache object it refers to (0: handle not created)
    lock,       \* per cache object: the RwLock guard alive between two steps
    pc,         \* per call: position in the operation
    op,         \* per call: "check" | "refresh" | "request" | "task"
    kind,       \* per call: the PermissionType argument
    hnd,        \* per call: the handle it was made through
    pend,       \* per call: result obtained, not yet returned / joined
    newer,      \* per call: status of a platform call of its kind that finished later
    snd,        \* per call: where the oneshot Sender of its channel is
    chan,       \* per call: the value stored in its oneshot channel
    sends,      \* per call: values sent into its channel (saturates at 2)
    fires,      \* per call: invocations of its completion block (saturates at 2)
    handler,    \* per call: a native completion handler is registered
    locTx,      \* macOS LOCATION_TX: LocUnset | LocEmpty | call whose Sender it holds
    delegate,   \* macOS: a LocationDelegate has been handed to CoreLocation
    batch,      \* the request_permissions call in progress
    hist        \* the call that returned in the last step (NoHist otherwise)

\* values given to set_windows_app_id
AppIds == {"", "com.kodegen.permissions"}

\* KODEGEN_WINDOWS_APP_ID in the environment (None: not set)
EnvValues == {None, "", "env.kodegen"}

\* Toast::POWERSHELL_APP_ID
FallbackAppId == "PowerShell"

\* the Option<String> while `*guard = Some(..)` replaces it: neither the old
\* nor the new value
Torn == "torn"

NoCfgHist == [op |-> "none", val |-> None, may |-> {}, last |-> None, cfg |-> None,
              env |-> None]

\* a component of the process that has not been touched yet, and one that
\* is in use with the state r
NotUsed == <<>>

Used(r) == <<r>>

\* config.rs: the process-wide Windows AUMID and the threads that use it.
\* WINDOWS_APP_ID is a LazyLock: NotUsed until its first access creates the
\* RwLock, then the record CfgFresh describes.
VARIABLE config

\* RwLock::new(None), no thread inside set_windows_app_id or a get
CfgFresh ==
    [appId |-> None, lock |-> "free", pc |-> [t \in Calls |-> "idle"],
     arg |-> [t \in Calls |-> None], may |-> [t \in Calls |-> {}], last |-> None,
     hist |-> NoCfgHist]

Cfg == IF config = NotUsed THEN CfgFresh ELSE config[1]

\* content of WINDOWS_APP_ID (None: Option::None)
appId == Cfg.appId

\* the RwLock around it: "free" | "write"
cfgLock == Cfg.lock

\* per thread: position in set_windows_app_id / get_* / get_app_id
cfgPc == Cfg.pc

\* per thread: the app_id a set_windows_app_id in progress stores
cfgArg == Cfg.arg

\* per thread: values a get in progress may return
cfgMay == Cfg.may

\* the app_id of the set_windows_app_id that completed last
cfgLast == Cfg.last

\* the config call that returned last
cfgHist == Cfg.hist

\* the manager and its adapters
core == <<platform, caches, cacheOf, lock, pc, op, kind, hnd, pend, newer, snd, chan,
          sends, fires, handler, locTx, delegate, batch, hist>>

\* macos/notification_permissions.rs, request_permission_with_cancel: one
\* call, its CancellationToken, its request_block and the Receiver; NotUsed
\* until the call is made
VARIABLE notifReq

ReqFresh ==
    [token |-> "none", atCall |-> "none", pc |-> "idle", state |-> "none",
     cancelled |-> FALSE, tx |-> "caller", log |-> <<>>, native |-> 0, block |-> FALSE,
     cb |-> "idle", arg |-> None, fires |-> 0, work |-> 0, early |-> FALSE,
     got |-> NoRes]

Req == IF notifReq = NotUsed THEN ReqFresh ELSE notifReq[1]

\* the `cancel` argument: "none" | "live" | "cancelled"
reqToken == Req.token

\* reqToken as it was when the function was called
reqAtCall == Req.atCall

\* "idle" | "registered" | "returned"
reqPc == Req.pc

\* the Option in `state`: "some" (holds tx and the token) | "none"
reqState == Req.state

\* the AtomicBool `cancelled`
reqCancelled == Req.cancelled

\* the Sender: "caller" | "state" | "sent" | "dropped"
reqTx == Req.tx

\* the values sent into the channel, in order
reqLog == Req.log

\* calls of requestAuthorizationWithOptions made
reqNative == Req.native

\* the framework holds request_block
reqBlock == Req.block

\* an invocation of request_block: "idle" | "entered"
reqCb == Req.cb

\* what the invocation in progress was given
reqArg == Req.arg

\* invocations of request_block (saturates at 2)
reqFires == Req.fires

\* invocations that went past the flag check (saturates at 2)
reqWork == Req.work

\* the token was cancelled after the call, before any invocation
reqEarly == Req.early

\* what the Receiver resolved to
reqGot == Req.got

\* ------------------------------------------------- windows/com_init.rs values
\* guards and with_com calls alive at once on one thread
MaxNesting == 3

ComThreads == {"ui", "worker"}

\* HRESULTs of CoInitializeEx
S_OK == "S_OK"
S_FALSE == "S_FALSE"
RPC_E_CHANGED_MODE == "RPC_E_CHANGED_MODE"
E_OUTOFMEMORY == "E_OUTOFMEMORY"

NoComLast == [op |-> "none", t |-> None, hr |-> None]

\* macos/notification_permissions.rs, check_permission_with_cancel: one call
\* (the waiting thread), its CancellationToken and its settings_block;
\* NotUsed until the call is made
VARIABLE notifChk

ChkFresh ==
    [token |-> "none", pc |-> "idle", elapsed |-> 0, holder |-> None,
     cancelled |-> FALSE, cb |-> "none", arg |-> None, res |-> NoRes, via |-> "none"]

Chk == IF notifChk = NotUsed THEN ChkFresh ELSE notifChk[1]

\* the `cancel` argument: "none" | "live" | "cancelled"
chkToken == Chk.token

\* waiting thread: "idle" | "poll" | "waiting" | "woken" | "timed_out" |
\* "returned"
chkPc == Chk.pc

\* `elapsed`, in milliseconds
chkElapsed == Chk.elapsed

\* the Option in status_holder (None: not stored)
chkHolder == Chk.holder

\* the AtomicBool `cancelled`
chkCancelled == Chk.cancelled

\* settings_block: "none" | "registered" | "entered" | "done"
chkCb == Chk.cb

\* the authorizationStatus the invocation in progress read
chkArg == Chk.arg

\* the value returned
chkRes == Chk.res

\* the exit taken: "cancelled" | "timeout" | "status"
chkVia == Chk.via

\* windows/com_init.rs: the threads that use ComGuard and with_com; NotUsed
\* until a thread of the process initialises COM
VARIABLE comInit

ComFresh ==
    [count |-> [t \in ComThreads |-> 0], mode |-> [t \in ComThreads |-> "none"],
     base |-> [t \in ComThreads |-> 0], guards |-> [t \in ComThreads |-> <<>>],
     last |-> NoComLast]

Com == IF comInit = NotUsed THEN ComFresh ELSE comInit[1]

\* per thread: the COM library's initialisation count
comCount == Com.count

\* per thread: its apartment, "none" | "sta" | "mta"
comMode == Com.mode

\* per thread: initialisations made by the host application
comBase == Com.base

\* per thread: the live ComGuard values, oldest first
comGuards == Com.guards

\* the last ComGuard::new or drop: thread, HRESULT
comLast == Com.last

NoToastLast == [t |-> 0, res |-> NoRes, before |-> None]

\* windows/notification_permissions.rs, check_permission: TOAST_AVAILABLE and
\* the threads inside check_permission; NotUsed until the first call
VARIABLE toast

\* OnceLock::new(), the OS version not looked at yet, no caller
ToastFresh ==
    [cell |-> None, os |-> None, runs |-> 0, pc |-> [t \in Calls |-> "idle"],
     app |-> [t \in Calls |-> None], last |-> NoToastLast]

Toast == IF toast = NotUsed THEN ToastFresh ELSE toast[1]

\* content of TOAST_AVAILABLE (None: not initialised)
toastCell == Toast.cell

\* OsVersion::current() >= 10.0: "supported" | "unsupported" (None: no call
\* has looked yet)
toastOs == Toast.os

\* runs of the get_or_init closure started (saturates at 2)
toastRuns == Toast.runs

\* per thread: "idle" | "init" | "test" | "fallback" | "blocked"
toastPc == Toast.pc

\* per thread: the app_id the closure resolved
toastApp == Toast.app

\* the check_permission call that returned last: thread, result, and the
\* cell as it was when the call was made
toastLast == Toast.last

\* ------------------------------------ linux/platform_specific.rs, linux/mod.rs
\* the kinds linux::check_permission hands to handle_general_linux_permission
GeneralKinds ==
    {"All", "DeveloperTools", "FileProviderDomain", "FileProviderPresence",
     "UbiquitousFileProvider", "WillfulWrite"}

\* the kinds linux::check_permission hands to handle_ios_specific_permission
IosKinds == {"Calls", "FaceID", "FocusStatus", "Siri"}

SpecificKinds == GeneralKinds \cup IosKinds

NoSpecificCall == [op |-> "none", kind |-> None, res |-> NoRes, via |-> "none"]

\* a Linux process that uses the kinds of platform_specific: the manager's
\* cache over these kinds, the call that returned last, and the
\* request_permission that returned last; NotUsed until the first call
VARIABLE specific

SpecificFresh ==
    [cache |-> [k \in SpecificKinds |-> None], last |-> NoSpecificCall,
     asked |-> NoSpecificCall]

Specific == IF specific = NotUsed THEN SpecificFresh ELSE specific[1]

\* the manager's cache, restricted to the kinds of platform_specific
specificCache == Specific.cache

\* the call that returned last: op, kind, result, "cache" | "adapter" | "channel"
specificLast == Specific.last

\* the request_permission call that returned last
specificAsked == Specific.asked

\* the state outside the manager
aside == <<config, notifReq, notifChk, comInit, toast, specific>>

vars == <<core, aside>>

mgr == <<caches, cacheOf, lock>>

call == <<pc, op, kind, hnd, pend>>

wire == <<snd, chan, sends, fires, handler, locTx, delegate>>

\* ------------------------------------------------- platform check adapters
\* The authorization state of the operating system is outside the process and
\* can change between any two native calls: every native call takes the state
\* it observes (st) and the environment's failures (fail) as inputs.
\* AVAuthorizationStatus / CLAuthorizationStatus -> PermissionStatus
StatusInto(st) == st

\* The status a boolean probe (interface present, D-Bus method return) reports
Probe(st) == IF st = "Authorized" THEN "Authorized" ELSE "Denied"

\* macOS: the match of check_permission over typ
MacCheck(k, st, onMain, fail) ==
    CASE k = "Camera" -> IF fail THEN Err(UnknownError) ELSE Ok(StatusInto(st))
      [] k = "Location" -> IF onMain THEN Ok(StatusInto(st)) ELSE Err(NotOnMainThread)
      [] k = "WiFi" -> Ok(Probe(st))

\* Linux: portal (Camera, Location) and D-Bus (WiFi) checks
LinuxCheck(k, st, fail) ==
    IF fail THEN Err(AdapterFailure) ELSE Ok(Probe(st))

\* Windows: AppCapability (Camera) and WinRT RequestAccessAsync (Location, WiFi)
WindowsCheck(k, st, fail) ==
    CASE k = "Camera" -> IF fail THEN Err(AdapterFailure) ELSE Ok(st)
      [] OTHER -> IF fail THEN Ok("NotDetermined") ELSE Ok(st)

PlatformCheck(plat, k, st, onMain, fail) ==
    CASE plat = "macos" -> MacCheck(k, st, onMain, fail)
      [] plat = "linux" -> LinuxCheck(k, st, fail)
      [] plat = "windows" -> WindowsCheck(k, st, fail)
      [] OTHER -> Err(UnknownError)

\* who produced the result of the platform match: a platform adapter, or
\* the manager's own fallback arm
Origin(plat) == IF plat = "other" THEN "manager" ELSE "adapter"

\* calling contexts in which the check adapter panics.  Linux portal checks
\* run tokio::task::block_in_place (panics on a current-thread runtime) and
\* tokio::runtime::Handle::current() (panics outside a runtime); the Windows
\* WinRT checks build a runtime and block_on it (panics inside a runtime).
CheckPanics(plat, k, ctx) ==
    \/ plat = "linux" /\ k \in {"Camera", "Location"} /\ ctx # "multi_thread"
    \/ plat = "windows" /\ k \in {"Location", "WiFi"} /\ ctx # "no_runtime"

\* the class of native API the check adapter calls: a query of the current
\* status, or a request for access (portal Camera::request / Location::request,
\* WinRT RequestAccessAsync), which can put up the consent dialog
CheckApi(plat, k) ==
    CASE plat = "linux" /\ k \in {"Camera", "Location"} -> "request_access"
      [] plat = "windows" /\ k \in {"Location", "WiFi"} -> "request_access"
      [] plat = "other" -> "none"
      [] OTHER -> "status_query"


\* what the check adapter of kind k reads of its environment
CheckReads(plat, k) ==
    CASE plat = "macos" /\ k = "Camera" -> {"st", "fail"}
      [] plat = "macos" /\ k = "Location" -> {"st", "onMain"}
      [] plat = "macos" /\ k = "WiFi" -> {"st"}
      [] plat = "linux" /\ k = "WiFi" -> {"st", "fail"}
      [] plat = "windows" /\ k = "Camera" -> {"st", "fail"}
      [] plat = "other" -> {}
      [] OTHER -> {"st", "fail", "ctx"}

\* the observations of a native call that reads `reads`; what the call does
\* not read is no input to it and is left at one value
Inputs(reads) ==
    {o \in [st : PermissionStatus, onMain : BOOLEAN, fail : BOOLEAN, ctx : Contexts] :
        /\ "st" \in reads \/ o.st = "Authorized"
        /\ "onMain" \in reads \/ o.onMain
        /\ "fail" \in reads \/ ~o.fail
        /\ "ctx" \in reads \/ o.ctx = "multi_thread"}

\* ----------------------------------------------- platform request adapters
LocUnset == 0 - 1

LocEmpty == 0

\* What a request adapter has done with the Sender when it returns:
\*   snd     "sent" (tx.send ran), "dropped" (tx went out of scope unsent),
\*           "refused" (dropped with the value LOCATION_TX.set gave back),
\*           "released" (the framework dropped the block that captured it),
\*           "slot" (Arc<Mutex<Option<Sender>>> captured by a completion block),
\*           "static" (stored in LOCATION_TX), "worker" (moved into a spawned
\*           thread or task that sends later)
\*   val     the value sent, when snd = "sent"
\*   handler a completion block was handed to the framework
\*   loc     LOCATION_TX afterwards;  del: a delegate was installed
Effect(s, v, hd, loc, d) == [snd |-> s, val |-> v, handler |-> hd, loc |-> loc, del |-> d]

\* av_permissions::request_permission
AvRequest(fail, loc) ==
    IF fail THEN Effect("sent", Err(UnknownError), FALSE, loc, FALSE)
    ELSE Effect("slot", NoRes, TRUE, loc, FALSE)

\* OnceLock::set: stores the value only when the cell is still unset
OnceLockSet(loc, i) == IF loc = LocUnset THEN i ELSE loc

\* location_permissions::request_permission
LocationRequest(i, st, onMain, loc) ==
    IF ~onMain THEN Effect("dropped", NoRes, FALSE, loc, FALSE)
    ELSE IF st = "NotDetermined"
         THEN IF loc = LocUnset
              THEN Effect("static", NoRes, FALSE, OnceLockSet(loc, i), TRUE)
              ELSE Effect("refused", NoRes, FALSE, OnceLockSet(loc, i), TRUE)
         ELSE Effect("sent", Ok(StatusInto(st)), FALSE, loc, FALSE)

SyncRequestAlways(plat, k) == TRUE

\* request_permission, lines 142-145, 155-158 and 167-171: kinds answered
\* by a return before the channel is awaited
SyncRequest(plat, k) == (plat = "macos" /\ k = "WiFi") \/ plat = "other"

\* macOS: the match of request_permission over typ (channel kinds)
MacRequest(i, k, st, onMain, fail, loc) ==
    CASE k = "Camera" -> AvRequest(fail, loc)
      [] k = "Location" -> LocationRequest(i, st, onMain, loc)

\* Linux and Windows: every request adapter moves tx into a spawned worker
\* (std::thread::spawn, tokio::spawn, tokio::task::spawn_blocking)
WorkerRequest(loc) == Effect("worker", NoRes, FALSE, loc, FALSE)

PlatformRequest(plat, i, k, st, onMain, fail, loc) ==
    CASE plat = "macos" -> MacRequest(i, k, st, onMain, fail, loc)
      [] OTHER -> WorkerRequest(loc)

\* what request_permission(k) reads of its environment before it awaits
RequestReads(plat, k) ==
    CASE plat = "macos" /\ k = "Camera" -> {"fail"}
      [] plat = "macos" /\ k = "Location" -> {"st", "onMain"}
      [] plat = "macos" /\ k = "WiFi" -> CheckReads(plat, k)
      [] OTHER -> {}

\* what the request adapter spawns to produce the result: a tokio task
\* (tokio::spawn, the portal kinds), an OS thread (std::thread::spawn, the
\* D-Bus kinds) or a blocking-pool thread (tokio::task::spawn_blocking,
\* Windows)
WorkerKind(plat, k) ==
    CASE plat = "linux" /\ k = "WiFi" -> "thread"
      [] plat = "linux" -> "task"
      [] plat = "windows" -> "blocking"
      [] OTHER -> "none"

\* the `result` a worker computes before tx.send(result)
WorkerResult(plat, k, st, fail) ==
    CASE plat = "linux" -> IF fail THEN Err(AdapterFailure) ELSE Ok(Probe(st))
      [] plat = "windows" /\ k = "Camera" ->
            IF fail THEN Err(AdapterFailure) ELSE Ok("Authorized")
      [] OTHER -> IF fail THEN Err(AdapterFailure) ELSE Ok(st)

\* the D-Bus workers leave the closure by `return Err(..)` before tx.send
\* when Message::new_method_call fails
WorkerReturnsEarly(plat, k) == plat = "linux" /\ k = "WiFi"

\* completion block of av_permissions: granted -> status
Granted(g) == IF g THEN "Authorized" ELSE "Denied"

SlotKeep(s) == s

\* guard.take() in a completion block or delegate: the Option is None
\* afterwards and the Sender taken out is consumed by send
SlotTake(s) == "sent"

\* guard.take() on LOCATION_TX: the Option inside the static is None afterwards
StaticTake(loc) == LocEmpty

RecvUnknown(c, s) ==
    IF c # NoRes THEN c
    ELSE IF s \in {"dropped", "refused", "released"} THEN Err(UnknownError)
    ELSE NoRes

RecvEager(c, s) == IF c # NoRes THEN c ELSE Err(ChannelClosed)

RecvPending(c, s) == IF c # NoRes THEN c ELSE NoRes

\* rx.await, line 177-178
Recv(c, s) ==
    IF c # NoRes THEN c
    ELSE IF s \in {"dropped", "refused", "released"} THEN Err(ChannelClosed)
    ELSE NoRes

ReadGuardKept(l) == "read"

\* the RwLockReadGuard bound by `if let Ok(cache) = self.cache.read()`
\* (check_permission, lines 32-36) is dropped where the `if` ends, before the
\* platform match
ReadUnlock(l) == "free"

\* the RwLockWriteGuard bound by `if let Ok(mut cache) = ..write()` (lines
\* 95-98, 181-183, 223-225) is dropped where the `if` ends
WriteUnlock(l) == "free"

CanReadAlways(l) == TRUE

\* RwLock::read returns once no writer holds the lock
CanRead(l) == l # "write"

\* RwLock::write returns once nobody holds the lock
CanWrite(l) == l = "free"

RequestCacheAlways(c, k, r) == CacheInsert(c, k, r.val)

\* request_permission, lines 180-183
RequestCacheUpdate(c, k, r) == IF r.ok THEN CacheInsert(c, k, r.val) ELSE c

CheckCacheAlways(c, k, r) == CacheInsert(c, k, r.val)

\* check_permission, lines 93-98
CheckCacheUpdate(c, k, r) == IF r.ok THEN CacheInsert(c, k, r.val) ELSE c

\* ---------------------------------------------------------------- helpers
\* a call record is free when nothing of an earlier call can still act on it
Free == {i \in Calls : pc[i] = "idle" /\ snd[i] = "none" /\ ~handler[i]}

NextId == CHOOSE i \in Free : \A j \in Free : i <= j

LiveHandles == {h \in Handles : cacheOf[h] # 0}

Cache(h) == caches[cacheOf[h]]

\* cache.get(&typ) under the read lock
CacheGet(h, k) == Cache(h)[k]

\* `let Some(status) = cache.get(&typ)`: the lookup of check_permission hits
CacheHit(h, k) == CacheGet(h, k) # None

Returned(o, k, r, v, h, g) ==
    [NoHist EXCEPT !.op = o, !.kind = k, !.res = r, !.via = v, !.h = h, !.got = g,
                   !.changed = (caches' # caches)]

\* the Sender and the counters of a call are forgotten once the call has
\* returned, the Sender is consumed and no completion block refers to it
Gone(p, s, hd) ==
    p = "idle" /\ ~hd /\ s \in {"sent", "dropped", "refused", "released", "none"}

Wire(pcN, sndN, sendsN, handlerN) ==
    /\ snd' = [j \in Calls |-> IF Gone(pcN[j], sndN[j], handlerN[j]) THEN "none" ELSE sndN[j]]
    /\ sends' = [j \in Calls |-> IF Gone(pcN[j], sndN[j], handlerN[j]) THEN 0 ELSE sendsN[j]]
    /\ fires' = [j \in Calls |-> IF Gone(pcN[j], sndN[j], handlerN[j]) THEN 0 ELSE fires[j]]
    /\ handler' = handlerN

SendIntoAlways(i, v) == [chan EXCEPT ![i] = v]

\* tx.send(v): stores v when the Receiver is still there, fails otherwise
SendInto(i, v) == IF pc[i] = "awaiting" THEN [chan EXCEPT ![i] = v] ELSE chan

Counted(i) == [sends EXCEPT ![i] = IF @ < 2 THEN @ + 1 ELSE @]

\* `tx.send(..).ok()` / `let _ = sender.send(..)`: the Err that send gives
\* back when the Receiver is gone is discarded
SendOutcome(i) ==
    [NoHist EXCEPT !.api = IF pc[i] = "awaiting" THEN "none" ELSE "send_failed"]

\* call j holds the Ok result of its platform call and has not yet written it
\* to the cache (check_permission between lines 91 and 95, request_permission
\* between lines 178 and 181)
Unwritten(j) ==
    \/ pc[j] = "check_write" /\ pend[j].ok
    \/ pc[j] = "awaiting" /\ chan[j].ok

\* the platform call of call i (kind k, handle h) finishes with r: the calls
\* of the same kind on the same cache that still hold an unwritten status now
\* hold an older one
Superseded(i, k, h, r) ==
    [j \in Calls |->
        IF j = i THEN None
        ELSE IF r.ok /\ Unwritten(j) /\ kind[j] = k /\ cacheOf[hnd[j]] = cacheOf[h]
             THEN r.val
             ELSE newer[j]]

\* a send into the channel of call i that reaches its Receiver completes the
\* platform call of i
Delivered(i, v) ==
    IF pc[i] = "awaiting" THEN Superseded(i, kind[i], hnd[i], v) ELSE newer

\* ------------------------------------------------------------------- Init
Init ==
    /\ platform \in Platforms
    /\ caches = [c \in Handles |-> EmptyCache]
    /\ cacheOf = [h \in Handles |-> IF h = 1 THEN 1 ELSE 0]
    /\ lock = [c \in Handles |-> "free"]
    /\ pc = [i \in Calls |-> "idle"]
    /\ op = [i \in Calls |-> "none"]
    /\ kind = [i \in Calls |-> None]
    /\ hnd = [i \in Calls |-> 0]
    /\ pend = [i \in Calls |-> NoRes]
    /\ newer = [i \in Calls |-> None]
    /\ snd = [i \in Calls |-> "none"]
    /\ chan = [i \in Calls |-> NoRes]
    /\ sends = [i \in Calls |-> 0]
    /\ fires = [i \in Calls |-> 0]
    /\ handler = [i \in Calls |-> FALSE]
    /\ locTx = LocUnset
    /\ delegate = FALSE
    /\ batch = NoBatch
    /\ hist = NoHist
    /\ config = NotUsed
    /\ notifReq = NotUsed
    /\ notifChk = NotUsed
    /\ comInit = NotUsed
    /\ toast = NotUsed
    /\ specific = NotUsed

\* the call record i stops: a direct call returns r to its caller, a spawned
\* task keeps r for the JoinHandle
Finish(i, r, v, g) ==
    IF op[i] = "task"
    THEN /\ pc' = [pc EXCEPT ![i] = "finished"]
         /\ pend' = [pend EXCEPT ![i] = r]
         /\ newer' = [newer EXCEPT ![i] = None]
         /\ hist' = NoHist
         /\ UNCHANGED <<op, kind, hnd>>
    ELSE /\ pc' = [pc EXCEPT ![i] = "idle"]
         /\ op' = [op EXCEPT ![i] = "none"]
         /\ kind' = [kind EXCEPT ![i] = None]
         /\ hnd' = [hnd EXCEPT ![i] = 0]
         /\ pend' = [pend EXCEPT ![i] = NoRes]
         /\ newer' = [newer EXCEPT ![i] = None]
         /\ hist' = [Returned(op[i], kind[i], r, v, hnd[i], g)
                       EXCEPT !.sent = sends[i], !.newer = newer[i]]

\* ------------------------------------------------------ check_permission
\* check_permission, lines 31-36: the cache lookup.  refresh_cache is
\* `let _ = self.check_permission(typ)` and enters here as well.
CheckStart(h, k, o) ==
    /\ h \in LiveHandles
    /\ CanRead(lock[cacheOf[h]])
    /\ lock' = [lock EXCEPT ![cacheOf[h]] = ReadUnlock(@)]
    /\ UNCHANGED <<platform, aside, caches, cacheOf, wire, batch>>
    /\ LET i == NextId IN
       IF CacheHit(h, k)
       THEN /\ hist' = Returned(o, k, Ok(CacheGet(h, k)), "cache", h, NoRes)
            /\ UNCHANGED <<call, newer>>
       ELSE /\ Free # {}
            /\ pc' = [pc EXCEPT ![i] = "check_adapter"]
            /\ op' = [op EXCEPT ![i] = o]
            /\ kind' = [kind EXCEPT ![i] = k]
            /\ hnd' = [hnd EXCEPT ![i] = h]
            /\ hist' = NoHist
            /\ UNCHANGED <<pend, newer>>

\* check_permission, lines 38-91: the platform check, no lock held
CheckAdapter(i, st, onMain, fail, ctx) ==
    /\ pc[i] = "check_adapter"
    /\ UNCHANGED <<platform, aside, mgr, wire, batch>>
    /\ IF CheckPanics(platform, kind[i], ctx)
       THEN Finish(i, Panicked, "panic", NoRes)
       ELSE /\ pend' = [pend EXCEPT ![i] = PlatformCheck(platform, kind[i], st, onMain, fail)]
            /\ newer' = Superseded(i, kind[i], hnd[i],
                                    PlatformCheck(platform, kind[i], st, onMain, fail))
            /\ pc' = [pc EXCEPT ![i] = "check_write"]
            /\ hist' = [NoHist EXCEPT !.api = CheckApi(platform, kind[i]), !.by = op[i]]
            /\ UNCHANGED <<op, kind, hnd>>

\* check_permission, lines 93-100: insert on success, return the status
CheckFinish(i) ==
    /\ pc[i] = "check_write"
    /\ pend[i].ok => CanWrite(lock[cacheOf[hnd[i]]])
    /\ lock' = [lock EXCEPT ![cacheOf[hnd[i]]] = IF pend[i].ok THEN WriteUnlock(@) ELSE @]
    /\ caches' = [caches EXCEPT ![cacheOf[hnd[i]]] = CheckCacheUpdate(@, kind[i], pend[i])]
    /\ Finish(i, pend[i], Origin(platform),
              IF Origin(platform) = "adapter" THEN pend[i] ELSE NoRes)
    /\ UNCHANGED <<platform, aside, cacheOf, wire, batch>>

\* ----------------------------------------------------------- clear_cache
ClearCache(h) ==
    /\ h \in LiveHandles
    /\ CanWrite(lock[cacheOf[h]])
    /\ lock' = [lock EXCEPT ![cacheOf[h]] = WriteUnlock(@)]
    /\ caches' = [caches EXCEPT ![cacheOf[h]] = CacheClear(@)]
    /\ hist' = Returned("clear", None, NoRes, "none", h, NoRes)
    /\ UNCHANGED <<platform, aside, cacheOf, call, newer, wire, batch>>

\* ------------------------------------------------------------------ clone
Clone(h) ==
    /\ h \in LiveHandles
    /\ \E n \in Handles \ LiveHandles :
         /\ \A m \in Handles \ LiveHandles : n <= m
         /\ cacheOf' = [cacheOf EXCEPT ![n] = CloneCache(cacheOf[h], n)]
    /\ hist' = NoHist
    /\ UNCHANGED <<platform, aside, caches, lock, call, newer, wire, batch>>

\* ---------------------------------------------------- request_permission
\* request_permission, lines 112-171: create the channel, call the adapter
RequestBegin(i, h, k, o, st, onMain, fail) ==
    IF SyncRequest(platform, k)
    THEN /\ UNCHANGED <<wire, mgr, newer>>
         /\ IF o = "task"
            THEN /\ pc' = [pc EXCEPT ![i] = "finished"]
                 /\ pend' = [pend EXCEPT ![i] = PlatformCheck(platform, k, st, onMain, fail)]
                 /\ hist' = NoHist
                 /\ UNCHANGED <<op, kind, hnd>>
            ELSE /\ hist' = Returned(o, k, PlatformCheck(platform, k, st, onMain, fail),
                                      IF Origin(platform) = "adapter" THEN "sync"
                                      ELSE "manager", h,
                                      IF Origin(platform) = "adapter"
                                      THEN PlatformCheck(platform, k, st, onMain, fail)
                                      ELSE NoRes)
                 /\ UNCHANGED call
    ELSE LET eff == PlatformRequest(platform, i, k, st, onMain, fail, locTx) IN
         /\ pc' = [pc EXCEPT ![i] = "awaiting"]
         /\ op' = [op EXCEPT ![i] = o]
         /\ kind' = [kind EXCEPT ![i] = k]
         /\ hnd' = [hnd EXCEPT ![i] = h]
         /\ snd' = [snd EXCEPT ![i] = eff.snd]
         /\ chan' = [chan EXCEPT ![i] = eff.val]
         /\ sends' = [sends EXCEPT ![i] = IF eff.snd = "sent" THEN 1 ELSE 0]
         /\ fires' = [fires EXCEPT ![i] = 0]
         /\ handler' = [handler EXCEPT ![i] = eff.handler]
         /\ locTx' = eff.loc
         /\ delegate' = (delegate \/ eff.del)
         /\ newer' = Superseded(i, k, h, eff.val)
         /\ hist' = NoHist
         /\ UNCHANGED <<pend, mgr>>

RequestStart(h, k, st, onMain, fail) ==
    /\ Free # {}
    /\ h \in LiveHandles
    /\ RequestBegin(NextId, h, k, "request", st, onMain, fail)
    /\ UNCHANGED <<platform, aside, batch>>

\* request_permission, lines 173-185: rx.await, cache update, return
RequestResume(i) ==
    /\ pc[i] = "awaiting"
    /\ Recv(chan[i], snd[i]) # NoRes
    /\ LET r == Recv(chan[i], snd[i]) IN
       /\ r.ok => CanWrite(lock[cacheOf[hnd[i]]])
       /\ lock' = [lock EXCEPT ![cacheOf[hnd[i]]] = IF r.ok THEN WriteUnlock(@) ELSE @]
       /\ caches' = [caches EXCEPT ![cacheOf[hnd[i]]] = RequestCacheUpdate(@, kind[i], r)]
       /\ Finish(i, r, IF chan[i] # NoRes THEN "channel" ELSE "closed", chan[i])
    /\ chan' = [chan EXCEPT ![i] = NoRes]
    /\ Wire(pc', snd, sends, handler)
    /\ UNCHANGED <<platform, aside, cacheOf, locTx, delegate, batch>>

\* ------------------------------------------- native side of the adapters
\* a spawned worker reaches tx.send(result)
WorkerSend(i, st, fail) ==
    /\ snd[i] = "worker"
    /\ chan' = SendInto(i, WorkerResult(platform, kind[i], st, fail))
    /\ Wire(pc, [snd EXCEPT ![i] = "sent"], Counted(i), handler)
    /\ newer' = Delivered(i, WorkerResult(platform, kind[i], st, fail))
    /\ hist' = SendOutcome(i)
    /\ UNCHANGED <<platform, aside, mgr, call, locTx, delegate, batch>>

\* a D-Bus worker leaves by its early return: tx is dropped unsent
WorkerDrop(i) ==
    /\ snd[i] = "worker"
    /\ WorkerReturnsEarly(platform, kind[i])
    /\ Wire(pc, [snd EXCEPT ![i] = "dropped"], sends, handler)
    /\ hist' = NoHist
    /\ UNCHANGED <<platform, aside, mgr, call, newer, chan, locTx, delegate, batch>>

\* the framework invokes the completion block of call i
HandlerFire(i, g) ==
    /\ handler[i]
    /\ IF snd[i] = "slot"
       THEN /\ chan' = SendInto(i, Ok(Granted(g)))
            /\ snd' = [snd EXCEPT ![i] = SlotTake(@)]
            /\ sends' = Counted(i)
            /\ newer' = Delivered(i, Ok(Granted(g)))
            /\ hist' = SendOutcome(i)
       ELSE /\ UNCHANGED <<chan, snd, sends, newer>>
            /\ hist' = NoHist
    /\ fires' = [fires EXCEPT ![i] = IF @ < 2 THEN @ + 1 ELSE @]
    /\ UNCHANGED handler
    /\ UNCHANGED <<platform, aside, mgr, call, locTx, delegate, batch>>

\* the framework releases the completion block (and what it captured)
HandlerRelease(i) ==
    /\ handler[i]
    /\ Wire(pc, [snd EXCEPT ![i] = IF @ = "slot" THEN "released" ELSE @], sends,
            [handler EXCEPT ![i] = FALSE])
    /\ hist' = NoHist
    /\ UNCHANGED <<platform, aside, mgr, call, newer, chan, locTx, delegate, batch>>

\* locationManager:didChangeAuthorizationStatus: of a LocationDelegate
DelegateFire(st) ==
    /\ delegate
    /\ IF locTx > 0
       THEN /\ chan' = SendInto(locTx, Ok(StatusInto(st)))
            /\ Wire(pc, [snd EXCEPT ![locTx] = "sent"], Counted(locTx), handler)
            /\ locTx' = StaticTake(locTx)
            /\ newer' = Delivered(locTx, Ok(StatusInto(st)))
            /\ hist' = SendOutcome(locTx)
       ELSE /\ UNCHANGED <<chan, snd, sends, fires, handler, locTx, newer>>
            /\ hist' = NoHist
    /\ UNCHANGED <<platform, aside, mgr, call, delegate, batch>>

\* --------------------------------------------------- request_permissions
RECURSIVE SortedSeq(_)
SortedSeq(S) ==
    IF S = {} THEN <<>>
    ELSE LET m == CHOOSE x \in S : \A y \in S : x <= y IN <<m>> \o SortedSeq(S \ {m})

BatchInputs == UNION {[1..n -> Kinds] : n \in 0..MaxBatch}

MapInsertAlone(m, k, r) == [EmptyMap EXCEPT ![k] = r]

MapInsertOk(m, k, r) == IF r.ok THEN [m EXCEPT ![k] = r] ELSE m

\* HashMap::insert(typ, result) on the result map
MapInsert(m, k, r) == [m EXCEPT ![k] = r]

JoinInsertErr(m, p, k, r) ==
    IF p = "finished" THEN [m EXCEPT ![k] = r] ELSE [m EXCEPT ![k] = Err("Cancelled")]

\* request_permissions, lines 208-210: `if let Ok((typ, result)) = task.await`
JoinInsert(m, p, k, r) == IF p = "finished" THEN MapInsert(m, k, r) ELSE m

\* the kinds that have an entry in a result map
Keys(m) == {k \in Kinds : m[k] # NoRes}

Range(f) == {f[x] : x \in DOMAIN f}

\* request_permissions, lines 196-204: spawn one task per element of types
BatchStart(h, types) ==
    /\ batch.st = "idle"
    /\ h \in LiveHandles
    /\ Len(types) <= Cardinality(Free)
    /\ LET tasks == SubSeq(SortedSeq(Free), 1, Len(types)) IN
       IF Len(types) = 0
       THEN /\ hist' = [NoHist EXCEPT !.op = "batch", !.h = h]
            /\ UNCHANGED <<call, batch>>
       ELSE /\ pc' = [i \in Calls |-> IF i \in Range(tasks) THEN "spawned" ELSE pc[i]]
            /\ op' = [i \in Calls |-> IF i \in Range(tasks) THEN "task" ELSE op[i]]
            /\ kind' = [i \in Calls |->
                          IF \E j \in 1..Len(tasks) : tasks[j] = i
                          THEN types[CHOOSE j \in 1..Len(tasks) : tasks[j] = i]
                          ELSE kind[i]]
            /\ hnd' = [i \in Calls |-> IF i \in Range(tasks) THEN h ELSE hnd[i]]
            /\ batch' = [NoBatch EXCEPT !.st = "joining", !.h = h, !.types = types,
                                        !.tasks = tasks]
            /\ hist' = NoHist
            /\ UNCHANGED pend
    /\ UNCHANGED <<platform, aside, mgr, wire, newer>>

TaskReadyInOrder(i) ==
    /\ pc[i] = "spawned"
    /\ \A j \in Calls : (j < i /\ op[j] = "task") => pc[j] \in {"finished", "failed"}

\* tokio::spawn, lines 200-203: the task runs as soon as the runtime polls
\* it, whatever the tasks spawned before it are doing
TaskReady(i) == pc[i] = "spawned"

\* the spawned task is polled for the first time: manager.request_permission
TaskRun(i, st, onMain, fail) ==
    /\ TaskReady(i)
    /\ RequestBegin(i, hnd[i], kind[i], "task", st, onMain, fail)
    /\ UNCHANGED <<platform, aside, batch>>

TaskStep(i) ==
    \E o \in Inputs(RequestReads(platform, kind[i])) : TaskRun(i, o.st, o.onMain, o.fail)

\* the task is cancelled or panics: its JoinHandle yields Err(JoinError) and
\* the future it was running (with the Receiver) is dropped
TaskAbort(i) ==
    /\ pc[i] \in {"spawned", "awaiting"}
    /\ op[i] = "task"
    /\ pc' = [pc EXCEPT ![i] = "failed"]
    /\ chan' = [chan EXCEPT ![i] = NoRes]
    /\ newer' = [newer EXCEPT ![i] = None]
    /\ hist' = NoHist
    /\ UNCHANGED <<platform, aside, mgr, op, kind, hnd, pend, snd, sends, fires, handler,
                   locTx, delegate, batch>>

\* request_permissions, lines 206-213: task.await in spawn order, insert
\* the pair of a joined task, return the map after the last one
BatchJoin ==
    /\ batch.st = "joining"
    /\ LET i == batch.tasks[batch.next]
           m == JoinInsert(batch.map, pc[i], kind[i], pend[i])
           n == IF pc[i] = "finished" THEN batch.joined + 1 ELSE batch.joined
           l == Append(batch.log, [kind |-> kind[i], ok |-> pc[i] = "finished",
                                   res |-> pend[i]])
       IN
       /\ pc[i] \in {"finished", "failed"}
       /\ pc' = [pc EXCEPT ![i] = "idle"]
       /\ op' = [op EXCEPT ![i] = "none"]
       /\ kind' = [kind EXCEPT ![i] = None]
       /\ hnd' = [hnd EXCEPT ![i] = 0]
       /\ pend' = [pend EXCEPT ![i] = NoRes]
       /\ Wire(pc', snd, sends, handler)
       /\ IF batch.next = Len(batch.tasks)
          THEN /\ hist' = [NoHist EXCEPT !.op = "batch", !.h = batch.h, !.map = m,
                                         !.types = Range(batch.types), !.joined = n,
                                         !.n = Len(batch.tasks), !.log = l]
               /\ batch' = NoBatch
          ELSE /\ hist' = NoHist
               /\ batch' = [batch EXCEPT !.next = @ + 1, !.map = m, !.joined = n,
                                          !.log = l]
    /\ UNCHANGED <<platform, aside, mgr, chan, newer, locTx, delegate>>

\* ------------------------------------------------------------- config.rs
\* the app_ids of the set_windows_app_id calls that hold the write guard
Writing == {cfgArg[u] : u \in {v \in Calls : cfgPc[v] = "set_store"}}

\* set_windows_app_id, line 39: WINDOWS_APP_ID.write()
SetLock(t, x) ==
    /\ cfgPc[t] = "idle"
    /\ CanWrite(cfgLock)
    /\ config' = Used([Cfg EXCEPT
                    !.lock = "write",
                    !.appId = Torn,
                    !.pc[t] = "set_store",
                    !.arg[t] = x,
                    !.may = [u \in Calls |-> IF cfgPc[u] = "get_read"
                                             THEN cfgMay[u] \cup {x} ELSE cfgMay[u]]])
    /\ UNCHANGED <<core, notifReq, notifChk, comInit, toast, specific>>

\* set_windows_app_id, lines 40-41: the assignment, then the guard is dropped
SetStore(t) ==
    /\ cfgPc[t] = "set_store"
    /\ config' = Used([Cfg EXCEPT
                    !.appId = cfgArg[t],
                    !.lock = WriteUnlock(cfgLock),
                    !.last = cfgArg[t],
                    !.pc[t] = "idle",
                    !.arg[t] = None,
                    !.hist = [NoCfgHist EXCEPT !.op = "set", !.val = cfgArg[t],
                                               !.last = cfgLast]])
    /\ UNCHANGED <<core, notifReq, notifChk, comInit, toast, specific>>

\* get_windows_app_id is called
GetCall(t) ==
    /\ cfgPc[t] = "idle"
    /\ config' = Used([Cfg EXCEPT !.pc[t] = "get_read", !.may[t] = {cfgLast} \cup Writing])
    /\ UNCHANGED <<core, notifReq, notifChk, comInit, toast, specific>>

\* get_windows_app_id, lines 56-59: read(), clone the Option, drop the guard
GetRead(t) ==
    /\ cfgPc[t] = "get_read"
    /\ CanRead(cfgLock)
    /\ config' = Used([Cfg EXCEPT
                    !.pc[t] = "idle",
                    !.may[t] = {},
                    !.hist = [NoCfgHist EXCEPT !.op = "get", !.val = appId,
                                               !.may = cfgMay[t], !.last = cfgLast]])
    /\ UNCHANGED <<core, notifReq, notifChk, comInit, toast, specific>>

EnvOrFallbackAny(env) == IF env # None THEN env ELSE FallbackAppId

\* get_app_id, lines 62-70: the environment variable when it is set and not
\* empty, the PowerShell AUMID otherwise
EnvOrFallback(env) == IF env # None /\ env # "" THEN env ELSE FallbackAppId

\* get_app_id, lines 57-60: the configured AUMID has priority
AppIdConfig(t) ==
    /\ cfgPc[t] = "idle"
    /\ CanRead(cfgLock)
    /\ config' = Used(IF appId # None
                 THEN [Cfg EXCEPT
                         !.hist = [NoCfgHist EXCEPT !.op = "get_app_id", !.val = appId,
                                                    !.cfg = appId, !.last = cfgLast]]
                 ELSE [Cfg EXCEPT !.pc[t] = "env"])
    /\ UNCHANGED <<core, notifReq, notifChk, comInit, toast, specific>>

\* get_app_id, lines 62-70, with the value std::env::var gives
AppIdEnv(t, env) ==
    /\ cfgPc[t] = "env"
    /\ config' = Used([Cfg EXCEPT
                    !.pc[t] = "idle",
                    !.hist = [NoCfgHist EXCEPT !.op = "get_app_id",
                                               !.val = EnvOrFallback(env),
                                               !.env = env, !.last = cfgLast]])
    /\ UNCHANGED <<core, notifReq, notifChk, comInit, toast, specific>>

\* Threads of a Windows process set and read the AUMID at any time.
ConfigNext ==
    \/ \E t \in Calls, x \in AppIds : SetLock(t, x)
    \/ \E t \in Calls : SetStore(t)
    \/ \E t \in Calls : GetCall(t)
    \/ \E t \in Calls : GetRead(t)
    \/ \E t \in Calls : AppIdConfig(t)
    \/ \E t \in Calls, env \in EnvValues : AppIdEnv(t, env)

\* the configuration is read by the Windows adapters
ConfigInit == Init /\ platform = "windows"

ConfigSpec == ConfigInit /\ [][ConfigNext]_vars

\* -------------------- macos/notification_permissions.rs: request with cancel
Cancelled == "Cancelled"

\* what the framework passes to request_block: (granted, error)
BlockArgs == {"granted", "denied", "error"}

\* request_block, lines 244-254
BlockResult(a) ==
    CASE a = "error" -> Err("SystemError(localizedDescription)")
      [] a = "granted" -> Ok("Authorized")
      [] OTHER -> Ok("Denied")

AlreadyCancelledNever(tk) == FALSE

\* lines 221-222: `if let Some(ref token) = cancel && token.is_cancelled()`
AlreadyCancelled(tk) == tk = "cancelled"

TokenCancelledNever(tk) == FALSE

\* lines 260-261: the token taken out of `state` is cancelled
TokenCancelled(tk) == tk = "cancelled"

\* the `cancel` argument: no token, a token, a token already cancelled
TokenArgs == {"none", "live", "cancelled"}

\* request_permission_with_cancel(tx, cancel), lines 216-280
ReqCall(tk) ==
    /\ reqPc = "idle"
    /\ notifReq' = Used(IF AlreadyCancelled(tk)
                   THEN [Req EXCEPT
                           !.token = tk,
                           !.atCall = tk,
                           !.log = Append(reqLog, Err(Cancelled)),
                           !.tx = "sent",
                           !.pc = "returned"]
                   ELSE [Req EXCEPT
                           !.token = tk,
                           !.atCall = tk,
                           !.state = "some",
                           !.tx = "state",
                           !.native = reqNative + 1,
                           !.block = TRUE,
                           !.pc = "registered"])
    /\ UNCHANGED <<core, config, notifChk, comInit, toast, specific>>

\* CancellationToken::cancel, by whoever holds a clone of the token
TokenCancel ==
    /\ reqToken = "live"
    /\ notifReq' = Used([Req EXCEPT
                      !.token = "cancelled",
                      !.early = (reqPc = "registered" /\ reqFires = 0)])
    /\ UNCHANGED <<core, config, notifChk, comInit, toast, specific>>

\* the framework invokes request_block: lines 238-241, the flag check
BlockEnter(a) ==
    /\ reqBlock
    /\ reqCb = "idle"
    /\ notifReq' = Used(IF reqCancelled
                   THEN [Req EXCEPT !.fires = IF reqFires < 2 THEN reqFires + 1 ELSE reqFires]
                   ELSE [Req EXCEPT
                           !.fires = IF reqFires < 2 THEN reqFires + 1 ELSE reqFires,
                           !.cb = "entered",
                           !.arg = a,
                           !.work = IF reqWork < 2 THEN reqWork + 1 ELSE reqWork])
    /\ UNCHANGED <<core, config, notifChk, comInit, toast, specific>>

\* request_block, lines 256-268: take the state, check the token, send
BlockTake ==
    /\ reqCb = "entered"
    /\ notifReq' = Used(IF reqState # "some"
                   THEN [Req EXCEPT !.cb = "idle", !.arg = None]
                   ELSE IF TokenCancelled(reqToken)
                   THEN [Req EXCEPT
                           !.cb = "idle",
                           !.arg = None,
                           !.state = "none",
                           !.cancelled = TRUE,
                           !.tx = "dropped"]
                   ELSE [Req EXCEPT
                           !.cb = "idle",
                           !.arg = None,
                           !.state = "none",
                           !.log = Append(reqLog, BlockResult(reqArg)),
                           !.tx = "sent"])
    /\ UNCHANGED <<core, config, notifChk, comInit, toast, specific>>

\* the framework releases request_block and, with it, `state`
BlockRelease ==
    /\ reqBlock
    /\ reqCb = "idle"
    /\ notifReq' = Used([Req EXCEPT
                      !.block = FALSE,
                      !.state = "none",
                      !.tx = IF reqState = "some" THEN "dropped" ELSE reqTx])
    /\ UNCHANGED <<core, config, notifChk, comInit, toast, specific>>

\* rx.await of whoever holds the Receiver
ReqRecv ==
    /\ reqGot = NoRes
    /\ reqTx \in {"sent", "dropped"}
    /\ notifReq' = Used([Req EXCEPT
                      !.got = IF reqLog # <<>> THEN reqLog[1] ELSE Err(ChannelClosed)])
    /\ UNCHANGED <<core, config, notifChk, comInit, toast, specific>>

\* One request_permission_with_cancel call; the token is cancelled and the
\* framework invokes and releases the block at any time.
NotifRequestNext ==
    \/ \E tk \in TokenArgs : ReqCall(tk)
    \/ TokenCancel
    \/ \E a \in BlockArgs : BlockEnter(a)
    \/ BlockTake
    \/ BlockRelease
    \/ ReqRecv

\* the macOS build
NotifRequestInit == Init /\ platform = "macos"

NotifRequestSpec == NotifRequestInit /\ [][NotifRequestNext]_vars

\* ------------------------------------------------------ windows/com_init.rs
\* CoInitializeEx(None, COINIT_APARTMENTTHREADED | COINIT_DISABLE_OLE1DDE) on
\* a thread whose count is c and whose apartment is m: the HRESULTs it can give
CoInitializeEx(c, m) ==
    IF m = "mta" THEN {RPC_E_CHANGED_MODE}
    ELSE {IF c = 0 THEN S_OK ELSE S_FALSE, E_OUTOFMEMORY}

\* ComGuard::new, line 107: `hr == S_OK || hr == S_FALSE`
Initialized(hr) == hr = S_OK \/ hr = S_FALSE

UninitializesNever(g) == FALSE

\* Drop for ComGuard, line 127: `if self.initialized`
Uninitializes(g) == g.initialized

\* CoInitializeEx on thread t answered hr: S_OK and S_FALSE raise the count
\* and the thread is in the apartment asked for
CoInitialized(c, t, hr) ==
    IF hr \in {S_OK, S_FALSE}
    THEN [c EXCEPT !.count[t] = @ + 1, !.mode[t] = "sta"]
    ELSE c

\* CoUninitialize on thread t: the count goes down; the apartment closes at
\* zero
CoUninitialize(c, t) ==
    [c EXCEPT !.count[t] = @ - 1, !.mode[t] = IF c.count[t] = 1 THEN "none" ELSE @]

\* positions of the guards of thread t that can be dropped now: a guard
\* held by the caller at any time, the guard of a with_com call when no
\* with_com call entered after it is still running
Droppable(t) ==
    {n \in 1..Len(comGuards[t]) :
        comGuards[t][n].scope = "with_com" =>
            \A m \in (n + 1)..Len(comGuards[t]) : comGuards[t][m].scope # "with_com"}

Without(s, n) == [m \in 1..(Len(s) - 1) |-> IF m < n THEN s[m] ELSE s[m + 1]]

\* the application itself has initialised COM on the thread before the
\* crate is used
HostInit(t, m) ==
    /\ comCount[t] = 0
    /\ comGuards[t] = <<>>
    /\ comInit' = Used([Com EXCEPT
                     !.count[t] = 1,
                     !.base[t] = 1,
                     !.mode[t] = m,
                     !.last = NoComLast])
    /\ UNCHANGED <<core, config, notifReq, notifChk, toast, specific>>

\* ComGuard::new() (scope "guard"), or with_com(f) up to the call of f
\* (scope "with_com"), lines 97-114 and 179
ComNew(t, scope, hr) ==
    /\ Len(comGuards[t]) < MaxNesting
    /\ hr \in CoInitializeEx(comCount[t], comMode[t])
    /\ LET c == [CoInitialized(Com, t, hr) EXCEPT
                   !.last = [op |-> "new", t |-> t, hr |-> hr]]
       IN  comInit' = Used(IF Initialized(hr)
                      THEN [c EXCEPT !.guards[t] =
                                        Append(@, [initialized |-> TRUE, scope |-> scope])]
                      ELSE c)
    /\ UNCHANGED <<core, config, notifReq, notifChk, toast, specific>>

\* a ComGuard goes out of scope, or f returns or unwinds and with_com drops
\* its _guard: lines 126-132 and 180-181
ComDrop(t, n) ==
    /\ n \in Droppable(t)
    /\ LET c == [Com EXCEPT
                   !.guards[t] = Without(@, n),
                   !.last = [op |-> "drop", t |-> t, hr |-> None]]
       IN  comInit' = Used(IF Uninitializes(comGuards[t][n]) THEN CoUninitialize(c, t) ELSE c)
    /\ UNCHANGED <<core, config, notifReq, notifChk, toast, specific>>

ComNext ==
    \/ \E t \in ComThreads, m \in {"sta", "mta"} : HostInit(t, m)
    \/ \E t \in ComThreads, scope \in {"guard", "with_com"},
          hr \in {S_OK, S_FALSE, RPC_E_CHANGED_MODE, E_OUTOFMEMORY} : ComNew(t, scope, hr)
    \/ \E t \in ComThreads, n \in 1..MaxNesting : ComDrop(t, n)

\* the Windows build
ComStart == Init /\ platform = "windows"

ComSpec == ComStart /\ [][ComNext]_vars

\* ---------------------- macos/notification_permissions.rs: check with cancel
\* SETTINGS_CALLBACK_TIMEOUT, in milliseconds
SettingsCallbackTimeout == 5000

\* check_interval, in milliseconds
CheckInterval == 100

UNAuthorizationStatus ==
    {"NotDetermined", "Denied", "Authorized", "Provisional", "Ephemeral", "Other"}

\* lines 128-135: UNAuthorizationStatus -> PermissionStatus
SettingsStatus(a) ==
    CASE a \in {"Authorized", "Provisional", "Ephemeral"} -> "Authorized"
      [] a = "Denied" -> "Denied"
      [] a = "NotDetermined" -> "NotDetermined"
      [] OTHER -> "Unknown"

MaxWaitReachedLate(e) == e >= SettingsCallbackTimeout + CheckInterval

\* line 121: `elapsed >= max_wait`
MaxWaitReached(e) == e >= SettingsCallbackTimeout

\* the waiting thread holds the mutex of status_holder except inside
\* cvar.wait_for and after it has returned
HolderUnlocked == chkPc \in {"waiting", "woken", "timed_out", "returned"}

\* the call returns r by the exit v
ChkReturn(c, r, v) == [c EXCEPT !.pc = "returned", !.res = r, !.via = v]

\* check_permission_with_cancel(cancel), lines 57-96: build the holder and
\* the flag, hand settings_block to the notification center, lock the holder
ChkCall(tk) ==
    /\ chkPc = "idle"
    /\ notifChk' = Used([Chk EXCEPT !.token = tk, !.pc = "poll", !.cb = "registered"])
    /\ UNCHANGED <<core, config, notifReq, comInit, toast, specific>>

\* CancellationToken::cancel, by whoever holds a clone of the token
ChkTokenCancel ==
    /\ chkToken = "live"
    /\ notifChk' = Used([Chk EXCEPT !.token = "cancelled"])
    /\ UNCHANGED <<core, config, notifReq, comInit, toast, specific>>

\* the loop, lines 99-114: cancellation first, then the holder, then wait_for
ChkPoll ==
    /\ chkPc = "poll"
    /\ notifChk' = Used(IF TokenCancelled(chkToken)
                   THEN ChkReturn([Chk EXCEPT !.cancelled = TRUE], Err(Cancelled),
                                  "cancelled")
                   ELSE IF chkHolder # None
                   THEN ChkReturn(Chk, Ok(SettingsStatus(chkHolder)), "status")
                   ELSE [Chk EXCEPT !.pc = "waiting"])
    /\ UNCHANGED <<core, config, notifReq, comInit, toast, specific>>

\* wait_for returns after notify_all, lines 114-118 and 128-135
ChkWake ==
    /\ chkPc = "woken"
    /\ notifChk' = Used(ChkReturn(Chk, Ok(SettingsStatus(chkHolder)), "status"))
    /\ UNCHANGED <<core, config, notifReq, comInit, toast, specific>>

\* the 100 ms of wait_for pass without a notification; the thread has not
\* yet locked the holder again
ChkTimeout ==
    /\ chkPc = "waiting"
    /\ notifChk' = Used([Chk EXCEPT !.pc = "timed_out"])
    /\ UNCHANGED <<core, config, notifReq, comInit, toast, specific>>

\* wait_for returns timed_out, lines 120-125
ChkAfterTimeout ==
    /\ chkPc = "timed_out"
    /\ LET c == [Chk EXCEPT !.elapsed = @ + CheckInterval]
       IN  notifChk' = Used(IF MaxWaitReached(c.elapsed)
                       THEN ChkReturn([c EXCEPT !.cancelled = TRUE], Ok("Unknown"),
                                      "timeout")
                       ELSE [c EXCEPT !.pc = "poll"])
    /\ UNCHANGED <<core, config, notifReq, comInit, toast, specific>>

\* the notification center invokes settings_block: lines 75-80
SettingsFire(a) ==
    /\ chkCb = "registered"
    /\ notifChk' = Used(IF chkCancelled
                   THEN [Chk EXCEPT !.cb = "done"]
                   ELSE [Chk EXCEPT !.cb = "entered", !.arg = a])
    /\ UNCHANGED <<core, config, notifReq, comInit, toast, specific>>

\* settings_block, lines 81-85: lock the holder, store, notify_all
SettingsStore ==
    /\ chkCb = "entered"
    /\ HolderUnlocked
    /\ notifChk' = Used([Chk EXCEPT
                      !.holder = chkArg,
                      !.arg = None,
                      !.cb = "done",
                      !.pc = IF chkPc = "waiting" THEN "woken" ELSE chkPc])
    /\ UNCHANGED <<core, config, notifReq, comInit, toast, specific>>

\* One check_permission_with_cancel call; the token is cancelled and the
\* notification center invokes the block at any time, or never.
NotifCheckNext ==
    \/ \E tk \in TokenArgs : ChkCall(tk)
    \/ ChkTokenCancel
    \/ ChkPoll
    \/ ChkWake
    \/ ChkTimeout
    \/ ChkAfterTimeout
    \/ \E a \in UNAuthorizationStatus : SettingsFire(a)
    \/ SettingsStore

\* The calling thread is an OS thread that keeps running, and wait_for
\* returns when its timeout has passed: each step of the call is taken.
NotifCheckSpec ==
    /\ NotifRequestInit
    /\ [][NotifCheckNext]_vars
    /\ WF_vars(ChkPoll) /\ WF_vars(ChkWake) /\ WF_vars(ChkTimeout) /\ WF_vars(ChkAfterTimeout)

\* ------------------------- windows/notification_permissions.rs: check_permission
CellFilledNever(c) == FALSE

\* OnceLock::get_or_init, line 100: the cell holds a value
CellFilled(c) == c # None

\* a thread is inside the closure of get_or_init
Initialising == \E u \in Calls : toastPc[u] \in {"init", "test", "fallback"}

ToastReturned(c, t, r) ==
    [c EXCEPT !.pc[t] = "idle", !.app[t] = None,
              !.last = [t |-> t, res |-> r, before |-> toastCell]]

\* the closure returns s: the cell is set, the caller returns Ok(s), line 131
ToastSet(c, t, s) == ToastReturned([c EXCEPT !.cell = s], t, Ok(s))

\* check_permission(), lines 88-100: the version test, then get_or_init:
\* the value of the cell, else wait for the thread that initialises it,
\* else run the closure
ToastCall(t, supported) ==
    /\ toastPc[t] = "idle"
    /\ toastOs \in {None, supported}
    /\ LET c == [Toast EXCEPT !.os = supported] IN
       toast' = Used(IF supported = "unsupported"
                     THEN ToastReturned(c, t, Err("SystemError(Windows 10 required)"))
                     ELSE IF CellFilled(toastCell)
                     THEN ToastReturned(c, t, Ok(toastCell))
                     ELSE IF Initialising
                     THEN [c EXCEPT !.pc[t] = "blocked"]
                     ELSE [c EXCEPT !.pc[t] = "init",
                                    !.runs = IF @ < 2 THEN @ + 1 ELSE @])
    /\ UNCHANGED <<core, config, notifReq, notifChk, comInit, specific>>

\* the closure, line 101: get_app_id()
ToastAppId(t, env) ==
    /\ toastPc[t] = "init"
    /\ CanRead(cfgLock)
    /\ toast' = Used([Toast EXCEPT
                        !.pc[t] = "test",
                        !.app[t] = IF appId # None THEN appId ELSE EnvOrFallback(env)])
    /\ UNCHANGED <<core, config, notifReq, notifChk, comInit, specific>>

\* the closure, lines 104-126: with_com(Toast::new(&app_id)) succeeds (ok) or
\* fails
ToastTest(t, ok) ==
    /\ toastPc[t] = "test"
    /\ toast' = Used(IF ok THEN ToastSet(Toast, t, "Authorized")
                     ELSE IF toastApp[t] # FallbackAppId
                     THEN [Toast EXCEPT !.pc[t] = "fallback"]
                     ELSE ToastSet(Toast, t, "Denied"))
    /\ UNCHANGED <<core, config, notifReq, notifChk, comInit, specific>>

\* the closure, lines 117-122: with_com(Toast::new(FALLBACK_APP_ID))
\* .unwrap_or(Denied)
ToastFallback(t, ok) ==
    /\ toastPc[t] = "fallback"
    /\ toast' = Used(ToastSet(Toast, t, IF ok THEN "Authorized" ELSE "Denied"))
    /\ UNCHANGED <<core, config, notifReq, notifChk, comInit, specific>>

\* a thread that waited in get_or_init finds the cell set and returns it
ToastWake(t) ==
    /\ toastPc[t] = "blocked"
    /\ CellFilled(toastCell)
    /\ toast' = Used(ToastReturned(Toast, t, Ok(toastCell)))
    /\ UNCHANGED <<core, config, notifReq, notifChk, comInit, specific>>

\* Threads of a Windows process call check_permission, set the AUMID and
\* clear the manager's cache at any time.
ToastNext ==
    \/ \E t \in Calls, supported \in {"supported", "unsupported"} :
          ToastCall(t, supported)
    \/ \E t \in Calls, env \in EnvValues : ToastAppId(t, env)
    \/ \E t \in Calls, ok \in BOOLEAN : ToastTest(t, ok)
    \/ \E t \in Calls, ok \in BOOLEAN : ToastFallback(t, ok)
    \/ \E t \in Calls : ToastWake(t)
    \/ \E t \in Calls, x \in AppIds : SetLock(t, x)
    \/ \E t \in Calls : SetStore(t)
    \/ ClearCache(1)

ToastSpec == ComStart /\ [][ToastNext]_vars

\* ------------------------------------------- linux/platform_specific.rs
\* handle_ios_specific_permission, lines 55-65
handle_ios_specific_permission(typ) ==
    IF typ \in {"Calls", "FaceID", "FocusStatus", "Siri"} THEN Ok("Denied")
    ELSE Ok("NotDetermined")

\* handle_general_linux_permission, lines 67-82 (the kinds answered without
\* D-Bus)
handle_general_linux_permission(typ) ==
    CASE typ = "All" -> Ok("NotDetermined")
      [] typ = "DeveloperTools" -> Ok("Authorized")
      [] typ \in {"FileProviderDomain", "FileProviderPresence"} -> Ok("NotDetermined")
      [] typ = "UbiquitousFileProvider" -> Ok("Denied")
      [] typ = "WillfulWrite" -> Ok("NotDetermined")
      [] OTHER -> Ok("NotDetermined")

\* request_general_linux_permission, lines 132-168: the value sent into tx
\* (the kinds answered without D-Bus)
request_general_linux_permission(typ) ==
    CASE typ = "All" -> Ok("Authorized")
      [] typ = "DeveloperTools" -> Ok("Authorized")
      [] typ \in {"FileProviderDomain", "FileProviderPresence"} -> Ok("Authorized")
      [] typ = "UbiquitousFileProvider" -> Ok("Authorized")
      [] typ = "WillfulWrite" -> Ok("Authorized")
      [] typ \in {"Calls", "FaceID", "FocusStatus", "Siri"} -> Ok("Denied")
      [] OTHER -> Ok("NotDetermined")

\* linux::check_permission, mod.rs lines 65-83: the arms of these kinds
check_permission_linux(typ) ==
    IF typ \in GeneralKinds THEN handle_general_linux_permission(typ)
    ELSE handle_ios_specific_permission(typ)

\* linux::request_permission, mod.rs line 139: the `_` arm
request_permission_linux(typ) == request_general_linux_permission(typ)

\* the calls of one scenario are about one kind: nothing of another kind is
\* cached when a call for k is made
OnlyCached(k) == \A j \in SpecificKinds \ {k} : specificCache[j] = None

\* request_permission(k), manager.rs lines 108-186: the adapter sends at
\* once, rx.await receives it, the status is inserted and returned
SpecificRequest(k) ==
    /\ platform = "linux"
    /\ OnlyCached(k)
    /\ LET r == request_permission_linux(k)
           c == [op |-> "request", kind |-> k, res |-> r, via |-> "channel"] IN
       specific' = Used([cache |-> RequestCacheUpdate(specificCache, k, r),
                         last |-> c, asked |-> c])
    /\ UNCHANGED <<core, config, notifReq, notifChk, comInit, toast>>

\* check_permission(k), manager.rs lines 27-101: the cached status, else the
\* platform check, inserted and returned
SpecificCheck(k) ==
    /\ platform = "linux"
    /\ OnlyCached(k)
    /\ specific' =
          Used(IF specificCache[k] # None
               THEN [Specific EXCEPT
                       !.last = [op |-> "check", kind |-> k,
                                 res |-> Ok(specificCache[k]), via |-> "cache"]]
               ELSE [Specific EXCEPT
                       !.cache = CheckCacheUpdate(@, k, check_permission_linux(k)),
                       !.last = [op |-> "check", kind |-> k,
                                 res |-> check_permission_linux(k), via |-> "adapter"]])
    /\ UNCHANGED <<core, config, notifReq, notifChk, comInit, toast>>

\* clear_cache(), manager.rs lines 221-226
SpecificClear ==
    /\ platform = "linux"
    /\ specific' =
          Used([Specific EXCEPT
                  !.cache = [k \in SpecificKinds |-> None],
                  !.last = [NoSpecificCall EXCEPT !.op = "clear"]])
    /\ UNCHANGED <<core, config, notifReq, notifChk, comInit, toast>>

SpecificNext ==
    \/ \E k \in SpecificKinds : SpecificRequest(k)
    \/ \E k \in SpecificKinds : SpecificCheck(k)
    \/ SpecificClear

SpecificStart == Init /\ platform = "linux"

SpecificSpec == SpecificStart /\ [][SpecificNext]_vars

\* -------------------------------------------------------------------- Next
\* the client is not inside a manager call
Quiet == (\A i \in Calls : pc[i] = "idle") /\ batch.st = "idle"

\* One client task uses the manager through its handles, one call after the
\* other; the workers and the native callbacks run concurrently with it.
Next ==
    \/ Quiet /\ \E h \in Handles, k \in Kinds, o \in {"check", "refresh"} : CheckStart(h, k, o)
    \/ \E i \in Calls : \E o \in Inputs(CheckReads(platform, kind[i])) :
         CheckAdapter(i, o.st, o.onMain, o.fail, o.ctx)
    \/ \E i \in Calls : CheckFinish(i)
    \/ Quiet /\ \E h \in Handles : ClearCache(h)
    \/ Quiet /\ \E h \in Handles : Clone(h)
    \/ Quiet /\ \E h \in Handles, k \in Kinds : \E o \in Inputs(RequestReads(platform, k)) :
          RequestStart(h, k, o.st, o.onMain, o.fail)
    \/ \E i \in Calls : RequestResume(i)
    \/ \E i \in Calls, st \in PermissionStatus, fail \in BOOLEAN : WorkerSend(i, st, fail)
    \/ \E i \in Calls : WorkerDrop(i)
    \/ \E i \in Calls, g \in BOOLEAN : HandlerFire(i, g)
    \/ \E i \in Calls : HandlerRelease(i)
    \/ \E st \in PermissionStatus : DelegateFire(st)

Spec == Init /\ [][Next]_vars

\* The client task calls request_permissions, one batch after the other; the
\* spawned tasks, the workers and the native callbacks run concurrently.
\* request_permission never reads the cache (lines 108-186), so a batch runs
\* the same on every cache: the batches here start on an empty one.
BatchNext ==
    \/ Quiet /\ Cache(1) = EmptyCache
             /\ \E h \in Handles, types \in BatchInputs : BatchStart(h, types)
    \/ \E i \in Calls : TaskStep(i)
    \/ \E i \in Calls : TaskAbort(i)
    \/ BatchJoin
    \/ \E i \in Calls : RequestResume(i)
    \/ \E i \in Calls, st \in PermissionStatus, fail \in BOOLEAN : WorkerSend(i, st, fail)
    \/ \E i \in Calls : WorkerDrop(i)
    \/ \E i \in Calls, g \in BOOLEAN : HandlerFire(i, g)
    \/ \E i \in Calls : HandlerRelease(i)
    \/ \E st \in PermissionStatus : DelegateFire(st)

BatchSpec == Init /\ [][BatchNext]_vars

\* The client task calls request_permission, one call after the other; the
\* workers and the native callbacks run concurrently with it.
RequestNext ==
    \/ Quiet /\ \E h \in Handles, k \in Kinds : \E o \in Inputs(RequestReads(platform, k)) :
          RequestStart(h, k, o.st, o.onMain, o.fail)
    \/ \E i \in Calls : RequestResume(i)
    \/ \E i \in Calls, st \in PermissionStatus, fail \in BOOLEAN : WorkerSend(i, st, fail)
    \/ \E i \in Calls : WorkerDrop(i)
    \/ \E i \in Calls, g \in BOOLEAN : HandlerFire(i, g)
    \/ \E i \in Calls : HandlerRelease(i)
    \/ \E st \in PermissionStatus : DelegateFire(st)

\* `rx.await` (line 177) registers the task's waker with the channel; a send
\* or the drop of the Sender wakes the task and the runtime polls it again, so
\* a request that can resume is not left waiting forever.
FairRequestSpec ==
    Init /\ [][RequestNext]_vars /\ \A i \in Calls : WF_vars(RequestResume(i))

\* Several client threads and tasks call check_permission and
\* request_permission on one manager at the same time.  A check that starts
\* after a status of its kind was written returns it from the cache without a
\* platform call: the calls here all start before the first write.  Entries
\* of different permission types do not meet (CacheInsert writes one key):
\* the calls in flight together are calls for one permission type.
Racing(k) == \A j \in Calls : pc[j] # "idle" => kind[j] = k

RaceNext ==
    \/ Cache(1) = EmptyCache /\ \E k \in Kinds : Racing(k) /\ CheckStart(1, k, "check")
    \/ \E i \in Calls : \E o \in Inputs(CheckReads(platform, kind[i])) :
         CheckAdapter(i, o.st, o.onMain, o.fail, o.ctx)
    \/ \E i \in Calls : CheckFinish(i)
    \/ ClearCache(1)
    \/ Cache(1) = EmptyCache
          /\ \E k \in Kinds : \E o \in Inputs(RequestReads(platform, k)) :
                Racing(k) /\ RequestStart(1, k, o.st, o.onMain, o.fail)
    \/ \E i \in Calls : RequestResume(i)
    \/ \E i \in Calls, st \in PermissionStatus, fail \in BOOLEAN : WorkerSend(i, st, fail)
    \/ \E i \in Calls : WorkerDrop(i)
    \/ \E i \in Calls, g \in BOOLEAN : HandlerFire(i, g)
    \/ \E i \in Calls : HandlerRelease(i)
    \/ \E st \in PermissionStatus : DelegateFire(st)

RaceSpec == Init /\ [][RaceNext]_vars

\* ----------------------------------------------------------------- claims
\* C1: after check_permission(k) or request_permission(k) has returned Ok(s)
\* (on any path, the synchronously answered request kinds included), a
\* check_permission(k) made next does not go to the platform check adapter
\* and returns s from the cache.
C1_CacheCoherence ==
    [][(hist.op \in {"check", "request"} /\ hist.res.ok) =>
         /\ \A i \in Calls :
              ~(pc[i] = "idle" /\ pc'[i] = "check_adapter" /\ op'[i] = "check"
                /\ kind'[i] = hist.kind)
         /\ (hist'.op = "check" /\ hist'.kind = hist.kind) =>
              (hist'.via = "cache" /\ hist'.res = hist.res)]_vars

\* C2: refresh_cache(k) always runs the platform check adapter of k, also
\* when k is cached: no refresh call is answered from the cache.
C2_RefreshForcesCheck == hist.op = "refresh" => hist.via # "cache"

\* C3: when the Sender of a request is dropped without a send, the awaiting
\* request_permission can resume (it does not stay suspended), and the call
\* that resumes on the closed channel returns
\* Err(SystemError("Permission channel closed")) and changes no cache.
C3_DroppedProducer ==
    /\ \A i \in Calls :
         (pc[i] = "awaiting" /\ chan[i] = NoRes
          /\ snd[i] \in {"dropped", "refused", "released"})
            => ENABLED RequestResume(i)
    /\ hist.via = "closed" =>
         (hist.res = Err(ChannelClosed) /\ ~hist.changed)

C3_Witness ==
    /\ hist.op = "request"
    /\ hist.via = "closed"
    /\ hist.res = Err(ChannelClosed)

\* C4: every platform request adapter sends exactly one value into the
\* channel on every path: no adapter path (early return, failed store into
\* the static, early return of a spawned worker) leaves the Sender dropped
\* without a send.
C4_EveryPathSends == \A i \in Calls : snd[i] \notin {"dropped", "refused"}

\* C5: at most one value is ever sent into the channel of a request, however
\* often its completion block is invoked: the first invocation empties the
\* take-once slot, a later one finds it empty and sends nothing, and a value
\* is only ever in the channel of the awaiting request whose Sender sent it.
C5_ExactlyOnce ==
    \A i \in Calls :
       /\ sends[i] <= 1
       /\ fires[i] >= 1 => snd[i] # "slot"
       /\ chan[i] # NoRes => (sends[i] = 1 /\ pc[i] = "awaiting")

C5_Witness ==
    \E i, j \in Calls :
       /\ i # j
       /\ fires[i] = 2
       /\ sends[i] = 1
       /\ pc[j] = "awaiting"
       /\ chan[j] = NoRes

\* C6: a request_permission(k) that receives Err(e) through the channel
\* returns Err(e) and leaves every cache as it was (an uncached k stays
\* uncached, so the lookup of a following check misses).
C6_RequestErrNotCached ==
    (hist.op = "request" /\ hist.via = "channel" /\ ~hist.got.ok) =>
        /\ hist.res = hist.got
        /\ ~hist.changed

C6_Witness ==
    /\ hist.op = "request"
    /\ hist.via = "channel"
    /\ ~hist.got.ok
    /\ ~CacheHit(hist.h, hist.kind)

\* C7: a check_permission(k) that misses the cache and whose platform check
\* adapter returns an error returns that error and leaves every cache as it
\* was.
C7_CheckErrNotCached ==
    (hist.op = "check" /\ hist.via = "adapter" /\ ~hist.got.ok) =>
        /\ hist.res = hist.got
        /\ ~hist.changed

C7_Witness ==
    /\ hist.op = "check"
    /\ hist.via = "adapter"
    /\ ~hist.res.ok
    /\ ~CacheHit(hist.h, hist.kind)

\* C8: clear_cache empties the whole cache in one step (no kind keeps an
\* entry), and a check_permission that returns in the step after it was not
\* answered from the cache: its lookup missed and it went to the adapter.
C8_ClearEmptiesAll ==
    /\ [](hist.op = "clear" => \A k \in Kinds : ~CacheHit(hist.h, k))
    /\ [][(hist.op = "clear" /\ hist'.op \in {"check", "refresh"})
             => hist'.via # "cache"]_vars

C8_Witness ==
    /\ hist.op = "clear"
    /\ hist.changed
    /\ Cache(hist.h) = EmptyCache

\* C9: all handles of one manager share one cache: an entry written through
\* any handle is seen through every handle, a check answered from the cache
\* through any handle returns the entry every handle sees, and a clear_cache
\* through any handle empties the cache seen through all of them.
C9_CloneSharing ==
    /\ \A h \in LiveHandles : Cache(h) = Cache(1)
    /\ (hist.op \in {"check", "request"} /\ hist.via \in {"adapter", "channel"}
        /\ hist.res.ok) =>
          \A h \in LiveHandles : CacheGet(h, hist.kind) = hist.res.val
    /\ (hist.op \in {"check", "refresh"} /\ hist.via = "cache") =>
          \A h \in LiveHandles : hist.res = Ok(CacheGet(h, hist.kind))
    /\ hist.op = "clear" => \A h \in LiveHandles : Cache(h) = EmptyCache

C9_Witness ==
    /\ hist.op = "check"
    /\ hist.via = "adapter"
    /\ hist.res.ok
    /\ hist.h = 2
    /\ CacheGet(1, hist.kind) = hist.res.val

\* C10: when every task spawned by request_permissions joins, the map it
\* returns has an entry for exactly the kinds asked for (as many entries as
\* distinct kinds), in whatever order the individual requests completed.
C10_BatchComplete ==
    (hist.op = "batch" /\ hist.joined = hist.n) =>
        /\ Keys(hist.map) = hist.types
        /\ Cardinality(Keys(hist.map)) = Cardinality(hist.types)

C10_Witness ==
    /\ hist.op = "batch"
    /\ hist.n = 2
    /\ hist.joined = 2
    /\ Cardinality(hist.types) = 2
    /\ \E k \in hist.types : ~hist.map[k].ok

\* C11: in the map request_permissions returns, the entry of a kind is the
\* result the (last joined) task of that kind returned from its own
\* request_permission, Ok or Err alike: what happens to the request of one
\* kind neither changes nor removes the entry of another.
C11_BatchIndependence ==
    hist.op = "batch" =>
        \A j \in 1..Len(hist.log) :
           (/\ hist.log[j].ok
            /\ \A l \in (j + 1)..Len(hist.log) :
                  ~(hist.log[l].ok /\ hist.log[l].kind = hist.log[j].kind))
              => hist.map[hist.log[j].kind] = hist.log[j].res

C11_Witness ==
    /\ hist.op = "batch"
    /\ \E k1, k2 \in Kinds :
          /\ k1 # k2
          /\ hist.map[k1] = Err(ChannelClosed)
          /\ hist.map[k2].ok

\* C12: a task that fails to join does not stop request_permissions (the
\* join loop goes on past it), and the map returned has an entry for exactly
\* the kinds of which a task joined: none for a kind whose task failed, one
\* for every other kind asked for.
C12_JoinFailureOmitted ==
    /\ (batch.st = "joining" /\ pc[batch.tasks[batch.next]] = "failed")
          => ENABLED BatchJoin
    /\ hist.op = "batch" =>
          Keys(hist.map) =
             {hist.log[j].kind : j \in {x \in 1..Len(hist.log) : hist.log[x].ok}}

C12_Witness ==
    /\ hist.op = "batch"
    /\ hist.n = 2
    /\ hist.joined = 1
    /\ Cardinality(hist.types) = 2
    /\ Cardinality(Keys(hist.map)) = 1

\* C13: request_permissions spawns a task for every listed kind before it
\* awaits any: every spawned task can run its request adapter whatever the
\* earlier tasks are doing, no task of the batch is still unspawned while the
\* batch is joining, and the batch returns only after every task has been
\* awaited and has stopped.
C13_FanOutAndJoin ==
    /\ \A i \in Calls : pc[i] = "spawned" => ENABLED TaskStep(i)
    /\ batch.st = "joining" =>
          \A j \in batch.next..Len(batch.tasks) :
             pc[batch.tasks[j]] \in {"spawned", "awaiting", "finished", "failed"}
    /\ hist.op = "batch" =>
          /\ Len(hist.log) = hist.n
          /\ \A i \in Calls : pc[i] = "idle"

C13_Witness ==
    \E i, j \in Calls :
       /\ i < j
       /\ op[i] = "task" /\ op[j] = "task"
       /\ pc[i] = "awaiting" /\ chan[i] = NoRes
       /\ snd[i] \in {"worker", "slot", "static"}
       /\ pc[j] = "awaiting"

\* C14: check_permission never calls a native request-access API (one that
\* can put up the consent dialog): every native call made by a check is a
\* query of the current status.
C14_CheckNeverPrompts ==
    hist.by \in {"check", "refresh"} => hist.api # "request_access"

\* C15: check_permission never panics, whatever the calling context: every
\* call returns Ok(status) or Err(error).
C15_CheckNeverPanics ==
    hist.op \in {"check", "refresh"} => hist.res # Panicked

\* C16: every Err returned by check_permission or request_permission is the
\* error the platform adapter produced for the call, unchanged, or it is
\* SystemError("Permission channel closed") returned by a request whose
\* channel closed with no value ever sent into it.
C16_ErrorsVerbatim ==
    (hist.op \in {"check", "request"} /\ ~hist.res.ok /\ hist.res # Panicked) =>
        \/ hist.via \in {"adapter", "channel", "sync"} /\ hist.res = hist.got
        \/ hist.res = Err(ChannelClosed) /\ hist.via = "closed" /\ hist.sent = 0

\* C16 (amended): the statement of C16 holds on the macOS, Linux and Windows
\* builds; on a build for any other target both calls return the manager's
\* own Err(Unknown), produced by no adapter.
C16_ErrorsVerbatimSupported ==
    hist.op \in {"check", "request"} =>
        /\ (platform # "other" /\ ~hist.res.ok /\ hist.res # Panicked) =>
              \/ hist.via \in {"adapter", "channel", "sync"} /\ hist.res = hist.got
              \/ hist.res = Err(ChannelClosed) /\ hist.via = "closed" /\ hist.sent = 0
        /\ (platform = "other" /\ hist.via # "cache") =>
              hist.res = Err(UnknownError) /\ hist.via = "manager"

C16_Witness ==
    /\ platform = "windows"
    /\ hist.op = "request"
    /\ hist.via = "channel"
    /\ hist.sent = 1
    /\ hist.res = Err(AdapterFailure)

\* C17: once the future of a suspended request_permission is dropped, the
\* request cannot resume and holds no value, and a send its adapter makes
\* afterwards changes neither a channel, nor a cache, nor any call.
C17_AbandonedRequest ==
    /\ [](\A i \in Calls :
            pc[i] = "failed" => (chan[i] = NoRes /\ ~ENABLED RequestResume(i)))
    /\ [][\A i \in Calls :
            (pc[i] # "awaiting" /\ snd[i] \in {"worker", "slot", "static"}
             /\ snd'[i] = "sent")
               => (chan' = chan /\ caches' = caches /\ pc' = pc)]_vars

C17_Witness ==
    /\ hist.api = "send_failed"
    /\ \E i \in Calls : pc[i] = "failed" /\ snd[i] = "sent" /\ chan[i] = NoRes
    /\ Cache(1) = EmptyCache

\* C18: two concurrent request_permission calls of one kind do not interfere:
\* neither loses its Sender because the static slot holds the Sender of the
\* other.
C18_IndependentRequests ==
    \A i, j \in Calls :
       (i # j /\ pc[i] = "awaiting" /\ pc[j] = "awaiting" /\ kind[i] = kind[j])
          => ~(snd[j] = "refused" /\ locTx = i)

\* C19: a suspended request_permission resolves exactly when its Sender has
\* sent or has been dropped: from then on the call eventually returns, and
\* it never returns while the Sender is alive and has sent nothing.
C19_ResolvesExactlyWhenSettled ==
    /\ \A i \in Calls :
          (pc[i] = "awaiting"
           /\ (chan[i] # NoRes \/ snd[i] \in {"dropped", "refused", "released"}))
             ~> (pc[i] # "awaiting")
    /\ [][\A i \in Calls :
            (pc[i] = "awaiting" /\ pc'[i] # "awaiting")
               => (chan[i] # NoRes \/ snd[i] \in {"dropped", "refused", "released"})]_vars

C19_Witness ==
    /\ platform = "linux"
    /\ hist.op = "request"
    /\ hist.via = "channel"
    /\ hist.sent = 1
    /\ hist.res.ok

\* C20: serving request_permission occupies no additional thread: no pending
\* request has an OS thread or a blocking-pool thread working for it.
C20_NoWorkerThreads ==
    \A i \in Calls :
       snd[i] = "worker" => WorkerKind(platform, kind[i]) \notin {"thread", "blocking"}

\* C21: when concurrent successful check_permission(k) and
\* request_permission(k) calls have all completed, cache[k] is the status of
\* the platform call for k that finished last: the call that wrote last is
\* not one whose platform call finished before that of another call.
C21_LastFinishedWins ==
    (/\ hist.op \in {"check", "request"}
     /\ hist.via \in {"adapter", "channel"}
     /\ hist.res.ok
     /\ \A i \in Calls : pc[i] = "idle") =>
        Cache(hist.h)[hist.kind] = (IF hist.newer = None THEN hist.res.val ELSE hist.newer)

\* C21 (amended): the cache is last-write-wins: when a successful
\* check_permission(k) or request_permission(k) that made a platform call
\* returns, cache[k] is the status it returns, whether or not the platform
\* call of another call for k finished after its own.
C21_LastWriteWins ==
    (/\ hist.op \in {"check", "request"}
     /\ hist.via \in {"adapter", "channel"}
     /\ hist.res.ok) =>
        Cache(hist.h)[hist.kind] = hist.res.val

C21_Witness ==
    /\ hist.op \in {"check", "request"}
    /\ hist.res.ok
    /\ hist.newer \notin {None, hist.res.val}
    /\ \A i \in Calls : pc[i] = "idle"
    /\ Cache(hist.h)[hist.kind] = hist.res.val

\* C22: an entry cache[k] changes only in the step in which a successful
\* check_permission(k) or request_permission(k) on that cache returns, and
\* then to the status the platform delivered as Ok and the call returns, or
\* in a clear_cache step on that cache, which leaves no entry at all; the
\* entries of the other kinds and of the other caches stay as they are.
C22_EntryLifecycle ==
    [][\A c \in Handles, k \in Kinds :
         caches'[c][k] # caches[c][k] =>
            \/ /\ hist'.op \in {"check", "refresh", "request"}
               /\ hist'.kind = k
               /\ cacheOf[hist'.h] = c
               /\ hist'.res.ok
               /\ hist'.got = hist'.res
               /\ caches'[c][k] = hist'.res.val
               /\ \A x \in Kinds \ {k} : caches'[c][x] = caches[c][x]
            \/ /\ hist'.op = "clear"
               /\ cacheOf[hist'.h] = c
               /\ caches'[c] = EmptyCache]_vars

C22_Witness ==
    /\ hist.op = "request"
    /\ hist.res.ok
    /\ hist.changed
    /\ Cache(hist.h)[hist.kind] = hist.res.val
    /\ \E x \in Kinds \ {hist.kind} : Cache(hist.h)[x] \notin {None, hist.res.val}

\* C23: no RwLock guard of a cache is held while a check adapter runs or a
\* request is suspended on its channel (a guard never outlives the step that
\* took it), so whatever calls are pending, clear_cache and a new
\* check_permission can take the lock and every call that holds a result can
\* write it and return: the manager operations never block each other.
C23_LockNeverHeld ==
    /\ \A c \in Handles : lock[c] = "free"
    /\ \A h \in LiveHandles : ENABLED ClearCache(h)
    /\ Free # {} => \A h \in LiveHandles, k \in Kinds : ENABLED CheckStart(h, k, "check")
    /\ \A i \in Calls :
          /\ pc[i] = "check_write" => ENABLED CheckFinish(i)
          /\ (pc[i] = "awaiting" /\ Recv(chan[i], snd[i]) # NoRes) => ENABLED RequestResume(i)

C23_Witness ==
    /\ hist.op = "clear"
    /\ \E i \in Calls : pc[i] = "check_write" /\ pend[i].ok
    /\ \E i \in Calls :
          pc[i] = "awaiting" /\ chan[i] = NoRes /\ snd[i] \in {"worker", "slot", "static"}

\* C24: get_windows_app_id returns None until a set_windows_app_id has
\* completed and afterwards the app_id of the set that completed last; a get
\* that overlaps a set returns the value from before the set or the value
\* being set, never anything else; a set of the value already stored leaves
\* it stored.
C24_AppIdRegister ==
    /\ cfgLock = "free" => appId = cfgLast
    /\ cfgHist.op = "get" =>
          /\ cfgHist.val \in cfgHist.may
          /\ cfgHist.val # Torn
          /\ cfgHist.may = {cfgHist.last} => cfgHist.val = cfgHist.last
    /\ (cfgHist.op = "set" /\ cfgLock = "free") => appId = cfgHist.val

C24_Witness ==
    /\ cfgHist.op = "get"
    /\ Cardinality(cfgHist.may) = 2
    /\ cfgHist.val # None
    /\ cfgHist.val = cfgHist.last
    /\ \E t \in Calls : cfgPc[t] = "set_store"

\* C29: get_app_id returns the AUMID configured through set_windows_app_id
\* when it found one; otherwise the value of KODEGEN_WINDOWS_APP_ID when it
\* is set and not empty; otherwise the PowerShell AUMID.
C29_AppIdPriority ==
    cfgHist.op = "get_app_id" =>
        /\ cfgHist.cfg # None => cfgHist.val = cfgHist.cfg
        /\ (cfgHist.cfg = None /\ cfgHist.env \notin {None, ""}) => cfgHist.val = cfgHist.env
        /\ (cfgHist.cfg = None /\ cfgHist.env \in {None, ""}) => cfgHist.val = FallbackAppId

C29_Witness ==
    /\ cfgHist.op = "get_app_id"
    /\ cfgHist.cfg = None
    /\ cfgHist.env = ""
    /\ cfgHist.val = FallbackAppId

\* C25: when the token is already cancelled at the call of
\* request_permission_with_cancel, the function sends exactly one value,
\* Err(Cancelled), into the channel before it returns, and neither issues the
\* native authorization request nor hands a block to the framework.
C25_CancelledAtCall ==
    (reqPc # "idle" /\ reqAtCall = "cancelled") =>
        /\ reqPc = "returned"
        /\ reqLog = <<Err(Cancelled)>>
        /\ reqTx = "sent"
        /\ reqNative = 0
        /\ ~reqBlock
        /\ reqFires = 0
        /\ reqGot \in {NoRes, Err(Cancelled)}

C25_Witness ==
    /\ reqAtCall = "cancelled"
    /\ reqPc = "returned"
    /\ reqGot = Err(Cancelled)

\* C26: when the token is cancelled after the call and before the block is
\* first invoked, no result is ever sent: the first invocation drops the
\* Sender and sets the flag, the Receiver resolves to a closed channel and
\* never to a status, and an invocation after that does no work.
C26_CancelledBeforeCallback ==
    reqEarly =>
        /\ reqLog = <<>>
        /\ reqGot \in {NoRes, Err(ChannelClosed)}
        /\ reqWork <= 1
        /\ (reqFires >= 1 /\ reqCb = "idle") =>
              (reqTx = "dropped" /\ reqState = "none" /\ reqCancelled)
        /\ reqCancelled => reqCb = "idle"

C26_Witness ==
    /\ reqEarly
    /\ reqFires = 2
    /\ reqWork = 1
    /\ reqCancelled
    /\ reqGot = Err(ChannelClosed)

C30_NoLateWrite ==
    [][(chkPc = "returned" /\ chkVia \in {"cancelled", "timeout"}) =>
          chkHolder' = chkHolder]_vars

\* C28: on every thread the COM initialisation count is the host's count
\* plus one per live ComGuard, so it is the host's count again when the
\* thread's guards and with_com calls have unwound, and CoInitializeEx then
\* answers as it did before; a successful ComGuard::new adds exactly one, a
\* failed one adds nothing and makes no guard, a drop removes exactly one.
C28_ComBalanced ==
    /\ [](\A t \in ComThreads :
            /\ comCount[t] = comBase[t] + Len(comGuards[t])
            /\ comGuards[t] = <<>> =>
                 /\ comCount[t] = comBase[t]
                 /\ comMode[t] # "mta" =>
                      (IF comBase[t] = 0 THEN S_OK ELSE S_FALSE)
                          \in CoInitializeEx(comCount[t], comMode[t]))
    /\ [][\A t \in ComThreads :
            /\ (comLast'.op = "new" /\ comLast'.t = t) =>
                 IF comLast'.hr \in {S_OK, S_FALSE}
                 THEN /\ comCount'[t] = comCount[t] + 1
                      /\ Len(comGuards'[t]) = Len(comGuards[t]) + 1
                 ELSE /\ comCount'[t] = comCount[t]
                      /\ comGuards'[t] = comGuards[t]
            /\ (comLast'.op = "drop" /\ comLast'.t = t) =>
                 /\ comCount'[t] = comCount[t] - 1
                 /\ Len(comGuards'[t]) = Len(comGuards[t]) - 1]_vars

C28_Witness ==
    /\ comLast.op = "drop"
    /\ comLast.t = "ui"
    /\ comGuards["ui"] = <<>>
    /\ comCount["ui"] = 0
    /\ comMode["ui"] = "none"
    /\ Len(comGuards["worker"]) = MaxNesting
    /\ comBase["worker"] = 1

\* C31: the closure of TOAST_AVAILABLE.get_or_init is started at most once
\* in the process, whatever the number of callers; once the cell is set it
\* never changes, whatever set_windows_app_id and clear_cache do; every
\* check_permission call on a supported OS version returns Ok of the cell,
\* and the status the cell already held when the call was made.
C31_ToastOnce ==
    /\ [](toastRuns <= 1)
    /\ [](Cardinality({u \in Calls : toastPc[u] \in {"init", "test", "fallback"}}) <= 1)
    /\ []((toastLast.res # NoRes /\ toastOs = "supported") =>
            /\ toastLast.res = Ok(toastCell)
            /\ toastLast.before \in {None, toastCell})
    /\ [][toastCell # None => toastCell' = toastCell]_vars

C31_Witness ==
    /\ toastLast.res = Ok("Denied")
    /\ toastLast.before = "Denied"
    /\ toastRuns = 1
    /\ hist.op = "clear"
    /\ appId = "com.kodegen.permissions"
    /\ \E u \in Calls : toastPc[u] = "blocked"

\* C32: request_permission never answers from the cache: every call hands
\* its Sender to the request adapter of the kind, or takes the synchronous
\* platform path of the kind (macOS WiFi), whether or not the kind is
\* cached, and an Ok it returns is the value that came out of that call's
\* own channel or synchronous path.
C32_RequestAsksPlatform ==
    /\ \A i \in Calls : pc[i] = "awaiting" => snd[i] # "none"
    /\ hist.op = "request" =>
          /\ hist.via \in {"sync", "channel", "closed"}
          /\ hist.via = "sync" <=> SyncRequest(platform, hist.kind)
          /\ hist.res.ok => hist.res = hist.got

\* C32 (amended): the statement of C32 holds on the macOS, Linux and Windows
\* builds; on a build for any other target request_permission calls no
\* adapter and returns the manager's own Err(Unknown), again without reading
\* the cache.
C32_RequestAsksPlatformSupported ==
    /\ \A i \in Calls : pc[i] = "awaiting" => (snd[i] # "none" /\ platform # "other")
    /\ (hist.op = "request" /\ platform # "other") =>
          /\ hist.via \in {"sync", "channel", "closed"}
          /\ hist.via = "sync" <=> (platform = "macos" /\ hist.kind = "WiFi")
          /\ hist.res.ok => hist.res = hist.got
    /\ (hist.op = "request" /\ platform = "other") =>
          /\ hist.via = "manager"
          /\ hist.res = Err(UnknownError)
          /\ ~hist.changed

\* a request for a kind that is cached with the very status the platform
\* answers: the answer came through the channel, after one send
C32_Witness ==
    /\ platform = "linux"
    /\ hist.op = "request"
    /\ hist.via = "channel"
    /\ hist.sent = 1
    /\ hist.res = Ok("Denied")
    /\ ~hist.changed
    /\ CacheGet(hist.h, hist.kind) = "Denied"

\* C33: clear_cache is not undone by a call that began before it: in the
\* state clear_cache has just returned in, a check_permission that already
\* holds the result of its platform check, or a request_permission whose
\* adapter was already called, leaves no entry for its kind in the cleared
\* cache when it returns.
C33_ClearNotUndone ==
    [][hist.op = "clear" =>
         \A i \in Calls :
            (/\ pc[i] \in {"check_write", "awaiting"}
             /\ cacheOf[hnd[i]] = cacheOf[hist.h]
             /\ pc'[i] = "idle")
               => caches'[cacheOf[hnd[i]]][kind[i]] = None]_vars

\* C34: on macOS every request_permission for Location made from the main
\* thread while authorization is NotDetermined, a later one as well as the
\* first, stores its Sender in LOCATION_TX: a call that is alone in flight
\* never has the store refused, and never finds the static already emptied
\* by the delegate of an earlier call.
C34_EveryCallStoresSender ==
    platform = "macos" =>
       \A i \in Calls :
          (/\ pc[i] = "awaiting"
           /\ kind[i] = "Location"
           /\ \A j \in Calls \ {i} : pc[j] = "idle")
             => ~(snd[i] = "refused" /\ locTx = LocEmpty)

\* C35: on Linux, for the kinds of platform_specific that have no consent
\* dialog, request_permission(k) reports the status check_permission(k)
\* reports on an empty cache: a check of k that goes to the adapter after a
\* request of k returns what the request returned.
C35_RequestAgreesWithCheck ==
    (/\ specificLast.op = "check"
     /\ specificLast.via = "adapter"
     /\ specificAsked.op = "request"
     /\ specificAsked.kind = specificLast.kind)
       => specificLast.res = specificAsked.res

====
